---------------------------- MODULE Spec2Model ----------------------------
(***************************************************************************)
(* GUIDED mentorship client: the progression and synchronisation layer.    *)
(*                                                                         *)
(*   SpecSession   AuthProvider (restore / login / signup / logout) and    *)
(*                 the RouteGuard mounted on one guarded page              *)
(*   SpecResolver  the three call sites of the progression resolver        *)
(*   SpecWorkflow  the optimistic action-item toggle of the workflow page  *)
(*   SpecMentor    accept / decline of mentorship requests                 *)
(*                                                                         *)
(* The runtime is a single-threaded event loop: every action below is one  *)
(* event handler, or the continuation of one awaited call, run to its end. *)
(* React commits the batched state updates of such a step in one render,   *)
(* and runs the effects of that render before the next event is handled.   *)
(***************************************************************************)
EXTENDS Integers, Sequences, FiniteSets, TLC

VARIABLES
    \* ---- AuthProvider ----
    user,           \* useState<User | null>
    token,          \* useState<string | null>
    isLoading,      \* useState(true)
    localStorage,   \* the keys the client persists
    restore,        \* the mount effect: its position and the /auth/me answer
    authCalls,      \* the login / signup calls made so far, in call order
    afterLogout,    \* whether the provider function called last was logout()
    \* ---- RouteGuard of the mounted page ----
    allowedRoles,   \* the page's allowedRoles prop
    gateView,       \* what the guard's last committed render shows
    gateRedirect,   \* the last router.replace target of the guard's effect
    \* ---- progression resolver call sites ----
    backend,        \* how the /candidate/status request ends in this run
    sites,          \* per call site: idle, fetching (awaiting the status) or done
    pushes,         \* per call site: the router.push targets it issued
    \* ---- workflow page ----
    actionItems,    \* item id -> completed
    stats,          \* the derived counters
    toggleCalls,    \* the toggleActionItem calls made so far, in call order
    toasts,         \* the notifications shown so far (any page)
    sessions,       \* session id -> the session's status and relative label
    sessionCalls,   \* the handleCompleteSession calls made so far, in call order
    \* ---- the backend behind the workflow page ----
    server,         \* the authoritative action items and sessions
    served,         \* which requests in flight the backend has processed
    \* ---- mentor dashboard ----
    mentorRequests, \* request id -> status
    mentorCalls,    \* the accept / decline calls made so far, in call order
    calendarInfo,   \* the scheduling banner: the calendar URL shown, or null
    windowsOpened,  \* the calendar URLs given to window.open
    \* ---- API client ----
    apiCalls,       \* the apiFetch calls made so far, in call order
    \* ---- mentor verification page ----
    verificationStatus,  \* useState "status": loading, unsubmitted, pending, verified
    linkedinUrl,         \* the text of the URL field
    verifyIsSubmitting,  \* useState isSubmitting of the verification page
    verifyCalls,         \* the status fetch and the submit calls, in call order
    \* ---- onboarding wizard ----
    currentStep,         \* useState(1)
    formData,            \* the answers given so far
    wizardIsSubmitting,  \* useState isSubmitting of the wizard
    wizardCalls,         \* the postOnboarding calls made so far, in call order
    \* ---- login page ----
    loginEmail,          \* useState email
    loginPassword,       \* useState password
    loginIsLoading,      \* useState isLoading of the login page
    loginCalls,          \* per login call of the page: where its handler stands
    \* ---- admin application ----
    adminAuthToken,      \* the module variable authToken of the admin client
    adminStorage,        \* admin_token and admin_user in the admin's localStorage
    layoutReady,         \* AdminLayout: useState ready
    adminRoute,          \* the route the admin application is on
    adminLoading,        \* MentorsPage: useState loading
    dialogAction,        \* MentorsPage: the action the open dialog is about
    rejectReason,        \* MentorsPage: the text of the reason field
    localMentors,        \* MentorsPage: mentor id -> enabled
    pendingMentors,      \* MentorsPage: the ids awaiting review
    actionLoading,       \* MentorsPage: useState actionLoading
    adminCalls           \* the loadData and handleAction runs so far, in call order

authVars     == <<user, token, isLoading, localStorage, restore, authCalls,
                 afterLogout>>
gateVars     == <<allowedRoles, gateView, gateRedirect>>
resolverVars == <<backend, sites, pushes>>
workflowVars == <<actionItems, stats, toggleCalls, toasts>>
syncVars     == <<sessions, sessionCalls, server, served>>
mentorVars   == <<mentorRequests, mentorCalls, calendarInfo, windowsOpened>>
apiVars      == <<apiCalls>>
verifyVars   == <<verificationStatus, linkedinUrl, verifyIsSubmitting, verifyCalls>>
wizardVars   == <<currentStep, formData, wizardIsSubmitting, wizardCalls>>
loginVars    == <<loginEmail, loginPassword, loginIsLoading, loginCalls>>
adminVars    == <<adminAuthToken, adminStorage, layoutReady, adminRoute,
                 adminLoading, dialogAction, rejectReason, localMentors,
                 pendingMentors, actionLoading, adminCalls>>
pageVars     == <<apiVars, verifyVars, wizardVars, loginVars, adminVars>>
vars == <<authVars, gateVars, resolverVars, workflowVars, syncVars, mentorVars,
          pageVars>>

--------------------------------------------------------------------------
(* Bounds *)

\* login / signup calls made in one run
MaxAuthCalls == 2

\* action-item toggles made in one run
MaxToggles == 3

\* accept / decline clicks made in one run
MaxMentorCalls == 3

\* "Mark Complete" clicks made in one run
MaxCompletions == 2

\* action-item toggles made in one run next to session completions
MaxSyncToggles == 1

\* apiFetch calls made in one run
MaxApiCalls == 1

\* login / signup calls made in one run next to apiFetch calls
MaxApiLogins == 1

\* submissions of the verification form that pass validation, in one run
MaxSubmits == 2

\* action-item toggles made in one run next to the backend that stores them
MaxWireToggles == 2

\* handleAction runs of the admin mentors page in one behaviour
MaxAdminActions == 2

--------------------------------------------------------------------------
(* Values *)

Null == "null"

Roles == {"candidate", "mentor", "admin"}

\* User | null: the null identity is a record so that every identity compares
NoUser == [id |-> Null, role |-> Null, verified |-> FALSE]

\* the accounts the backend knows, one of each role
Accounts ==
    { [id |-> "u1", role |-> "candidate", verified |-> FALSE],
      [id |-> "u2", role |-> "mentor",    verified |-> TRUE],
      [id |-> "u3", role |-> "admin",     verified |-> FALSE] }

\* a token left in localStorage by an earlier visit
StaleToken == "tok0"

\* the token the backend issues in answer to the i-th login / signup call
Tok(i) == "tok" \o ToString(i)

StorageKeys == {"guided_token", "candidateId", "onboardingData"}

--------------------------------------------------------------------------
(* RouteGuard *)

\* a guard that forgets the role check
RouteGuardRenderAnyRole(u, loading, allowed) ==
    IF loading THEN "spinner"
    ELSE IF u = NoUser THEN "nothing"
    ELSE "children"

\* a guard that looks at the identity before it looks at isLoading
RouteGuardRenderIdentityFirst(u, loading, allowed) ==
    IF u # NoUser /\ u.role \in allowed THEN "children"
    ELSE IF loading THEN "spinner"
    ELSE "nothing"

\* the render: spinner while loading, nothing while redirecting, else children
RouteGuardRender(u, loading, allowed) ==
    IF loading THEN "spinner"
    ELSE IF u = NoUser \/ u.role \notin allowed THEN "nothing"
    ELSE "children"

\* C1, witness: the guard shows children of a session that a login established
\* while the stale token's validation was rejected.
C1_Witness ==
    /\ gateView = "children"
    /\ restore.phase = "rejected"
    /\ \E i \in 1..Len(authCalls) : authCalls[i].phase = "ok"

\* an effect that leaves a visitor without a session where they are
RouteGuardEffectNoLogin(u, loading, allowed) ==
    IF loading \/ u = NoUser THEN Null
    ELSE IF u.role \notin allowed
         THEN IF u.role = "mentor" THEN "/mentor/dashboard"
              ELSE IF u.role = "admin" THEN "/"
              ELSE "/candidate/workflow"
    ELSE Null

\* an effect that knows the mentor's home only
RouteGuardEffectMentorOrWorkflow(u, loading, allowed) ==
    IF loading THEN Null
    ELSE IF u = NoUser THEN "/login"
    ELSE IF u.role \notin allowed
         THEN IF u.role = "mentor" THEN "/mentor/dashboard"
              ELSE "/candidate/workflow"
    ELSE Null

\* the effect: the router.replace target, or Null when it replaces nothing
RouteGuardEffect(u, loading, allowed) ==
    IF loading THEN Null
    ELSE IF u = NoUser THEN "/login"
    ELSE IF u.role \notin allowed
         THEN IF u.role = "mentor" THEN "/mentor/dashboard"
              ELSE IF u.role = "admin" THEN "/"
              ELSE "/candidate/workflow"
    ELSE Null

\* a guard whose effect depends on isLoading alone
GateCommitOnLoadOnly(u, loading, fresh) ==
    /\ gateView' = RouteGuardRender(u, loading, allowedRoles)
    /\ gateRedirect' =
          IF loading # isLoading
             /\ RouteGuardEffect(u, loading, allowedRoles) # Null
          THEN RouteGuardEffect(u, loading, allowedRoles)
          ELSE gateRedirect
    /\ UNCHANGED allowedRoles

\* One commit of the provider's new state u, loading: the guard renders again,
\* and its effect runs when one of its dependencies [user, isLoading] changed
\* (fresh: setUser was given a newly parsed object, which never equals the old).
GateCommit(u, loading, fresh) ==
    /\ gateView' = RouteGuardRender(u, loading, allowedRoles)
    /\ gateRedirect' =
          IF (fresh \/ u # user \/ loading # isLoading)
             /\ RouteGuardEffect(u, loading, allowedRoles) # Null
          THEN RouteGuardEffect(u, loading, allowedRoles)
          ELSE gateRedirect
    /\ UNCHANGED allowedRoles

--------------------------------------------------------------------------
(* AuthProvider *)

\* the mount effect reads the stored token; with none it resolves at once
Mount ==
    /\ restore.phase = "unmounted"
    /\ IF localStorage["guided_token"] # Null
       THEN /\ token' = localStorage["guided_token"]
            /\ restore' = [phase |-> "validating", data |-> NoUser]
            /\ UNCHANGED isLoading
       ELSE /\ isLoading' = FALSE
            /\ restore' = [phase |-> "done", data |-> NoUser]
            /\ UNCHANGED token
    /\ GateCommit(user, isLoading', FALSE)
    /\ afterLogout' = FALSE
    /\ UNCHANGED <<user, localStorage, authCalls>>

\* /auth/me answered 2xx with the identity data
RestoreOk(data) ==
    /\ restore.phase = "validating"
    /\ user' = data
    /\ isLoading' = FALSE
    /\ restore' = [phase |-> "restored", data |-> data]
    /\ GateCommit(user', isLoading', TRUE)
    /\ afterLogout' = FALSE
    /\ UNCHANGED <<token, localStorage, authCalls>>

\* /auth/me was rejected, or the request failed: the catch branch
RestoreFail ==
    /\ restore.phase = "validating"
    /\ localStorage' = [localStorage EXCEPT !["guided_token"] = Null]
    /\ token' = Null
    /\ isLoading' = FALSE
    /\ restore' = [phase |-> "rejected", data |-> NoUser]
    /\ GateCommit(user, isLoading', FALSE)
    /\ afterLogout' = FALSE
    /\ UNCHANGED <<user, authCalls>>

\* a call of login or signup: the request leaves, nothing else changes yet.
\* Its headers are Content-Type alone: bearer, the token the request carries in
\* an Authorization header, is null.
\* response notes how the backend answered (ok, rejected = non-2xx) or that the
\* fetch failed (network); result is what the call returned to its caller.
AuthCall(kind, acct) ==
    /\ restore.phase # "unmounted"
    /\ Len(authCalls) < MaxAuthCalls
    /\ authCalls' = Append(authCalls,
          [kind |-> kind, acct |-> acct, phase |-> "awaiting", response |-> Null,
           bearer |-> Null,
           result |-> [success |-> FALSE, error |-> Null, user |-> NoUser]])
    /\ afterLogout' = FALSE
    /\ UNCHANGED <<user, token, isLoading, localStorage, restore, gateVars>>

Login(acct)  == AuthCall("login", acct)
Signup(acct) == AuthCall("signup", acct)

\* the response of the i-th call when the backend accepts it
AuthResponse(i) == [token |-> Tok(i), user |-> authCalls[i].acct]

\* an accepted call that persists and sets the token but leaves the identity
AuthAcceptedTokenOnly(i) ==
    /\ localStorage' = [localStorage EXCEPT !["guided_token"] = AuthResponse(i).token]
    /\ token' = AuthResponse(i).token
    /\ authCalls' = [authCalls EXCEPT ![i].phase = "ok", ![i].response = "ok",
          ![i].result = [success |-> TRUE, error |-> Null,
                         user |-> AuthResponse(i).user]]
    /\ GateCommit(user, isLoading, FALSE)
    /\ afterLogout' = FALSE
    /\ UNCHANGED <<user, isLoading, restore>>

\* an accepted call that keeps the session another call has already set
AuthAcceptedFirstWins(i) ==
    /\ IF \E j \in 1..Len(authCalls) : authCalls[j].phase = "ok"
       THEN /\ GateCommit(user, isLoading, FALSE)
            /\ UNCHANGED <<localStorage, token, user>>
       ELSE /\ localStorage' =
                  [localStorage EXCEPT !["guided_token"] = AuthResponse(i).token]
            /\ token' = AuthResponse(i).token
            /\ user' = AuthResponse(i).user
            /\ GateCommit(user', isLoading, TRUE)
    /\ authCalls' = [authCalls EXCEPT ![i].phase = "ok", ![i].response = "ok",
          ![i].result = [success |-> TRUE, error |-> Null,
                         user |-> AuthResponse(i).user]]
    /\ afterLogout' = FALSE
    /\ UNCHANGED <<isLoading, restore>>

\* res.ok: persist the token, set token and user, return success
AuthAccepted(i) ==
    /\ localStorage' = [localStorage EXCEPT !["guided_token"] = AuthResponse(i).token]
    /\ token' = AuthResponse(i).token
    /\ user' = AuthResponse(i).user
    /\ authCalls' = [authCalls EXCEPT ![i].phase = "ok", ![i].response = "ok",
          ![i].result = [success |-> TRUE, error |-> Null,
                         user |-> AuthResponse(i).user]]
    /\ GateCommit(user', isLoading, TRUE)
    /\ afterLogout' = FALSE
    /\ UNCHANGED <<isLoading, restore>>

\* a call without the catch block: a failed fetch throws to the caller
AuthRefusedThrows(i, outcome) ==
    /\ authCalls' = [authCalls EXCEPT
          ![i].phase = IF outcome = "network" THEN "threw" ELSE "failed",
          ![i].response = outcome,
          ![i].result =
              [success |-> FALSE,
               error |-> IF outcome = "network" THEN Null
                         ELSE IF authCalls[i].kind = "login"
                              THEN "Login failed" ELSE "Signup failed",
               user |-> NoUser]]
    /\ afterLogout' = FALSE
    /\ UNCHANGED <<user, token, isLoading, localStorage, restore, gateVars>>

\* !res.ok, or fetch / res.json() threw: return the failure, touch nothing
AuthRefused(i, outcome) ==
    /\ authCalls' = [authCalls EXCEPT ![i].phase = "failed",
          ![i].response = outcome,
          ![i].result =
              [success |-> FALSE,
               error |-> IF outcome = "network"
                         THEN "Cannot connect to server"
                         ELSE IF authCalls[i].kind = "login"
                              THEN "Login failed" ELSE "Signup failed",
               user |-> NoUser]]
    /\ afterLogout' = FALSE
    /\ UNCHANGED <<user, token, isLoading, localStorage, restore, gateVars>>

\* the continuation of the i-th login / signup call after its awaited fetch
AuthSettle(i, outcome) ==
    /\ i \in 1..Len(authCalls)
    /\ authCalls[i].phase = "awaiting"
    /\ IF outcome = "ok" THEN AuthAccepted(i) ELSE AuthRefused(i, outcome)

\* a logout that forgets the cached onboarding draft
LogoutKeepsDraft ==
    /\ restore.phase # "unmounted"
    /\ localStorage' = [localStorage EXCEPT !["guided_token"] = Null,
                                            !["candidateId"] = Null]
    /\ token' = Null
    /\ user' = NoUser
    /\ GateCommit(user', isLoading, FALSE)
    /\ afterLogout' = TRUE
    /\ UNCHANGED <<isLoading, restore, authCalls>>

\* logout: wipe the stored session data and the in-memory session
Logout ==
    /\ restore.phase # "unmounted"
    /\ localStorage' = [k \in StorageKeys |-> Null]
    /\ token' = Null
    /\ user' = NoUser
    /\ GateCommit(user', isLoading, FALSE)
    /\ afterLogout' = TRUE
    /\ UNCHANGED <<isLoading, restore, authCalls>>

--------------------------------------------------------------------------
(* API client *)

\* the ways a request can end; a 2xx response carries a body
FailureKinds == {"network", "timeout", "http"}

\* T | null, as apiFetch returns it
NullResult  == [isNull |-> TRUE,  value |-> <<>>]
Payload(v)  == [isNull |-> FALSE, value |-> v]

\* apiFetch: the parsed body of a 2xx response; null on a non-2xx response, and
\* null from the catch block when fetch rejects (network error, abort on timeout)
ApiFetch(outcome) ==
    IF outcome.kind = "ok" THEN Payload(outcome.body) ELSE NullResult

\* getToken(): the token persisted under guided_token, or null
GetToken == localStorage["guided_token"]

\* the statuses a response can have, and the body of a 2xx response
ApiStatuses == {"200", "401", "500"}
ApiBody     == [message |-> "ok"]

\* the i-th apiFetch call with some of its fields replaced
ApiUpdate(i, fields) ==
    apiCalls' = [apiCalls EXCEPT ![i] =
                    [f \in DOMAIN @ |-> IF f \in DOMAIN fields THEN fields[f] ELSE @[f]]]

\* a client that never attaches the Authorization header
ApiCallNoHeader ==
    /\ apiCalls' = Append(apiCalls,
          [bearer |-> Null, timer |-> "armed", phase |-> "fetching",
           status |-> Null, outcome |-> Null, completion |-> "pending",
           result |-> NullResult])
    /\ UNCHANGED <<authVars, gateVars>>

\* apiFetch up to its await of fetch: the timer is armed, getToken() is read and
\* the request leaves with Authorization: Bearer <token> if a token is persisted
ApiCall ==
    /\ apiCalls' = Append(apiCalls,
          [bearer |-> GetToken, timer |-> "armed", phase |-> "fetching",
           status |-> Null, outcome |-> Null, completion |-> "pending",
           result |-> NullResult])
    /\ UNCHANGED <<authVars, gateVars>>

\* fetch rejects (network error): the catch block returns null. The timer is
\* not cleared on this path.
FetchRejects(i) ==
    /\ i \in 1..Len(apiCalls)
    /\ apiCalls[i].phase = "fetching"
    /\ ApiUpdate(i, [phase |-> "done", outcome |-> "network",
                     completion |-> "returned",
                     result |-> ApiFetch([kind |-> "network", body |-> <<>>])])
    /\ UNCHANGED <<authVars, gateVars>>

\* a client whose abort rejection escapes the call
TimerFiresUncaught(i) ==
    /\ i \in 1..Len(apiCalls)
    /\ apiCalls[i].timer = "armed"
    /\ IF apiCalls[i].phase = "fetching"
       THEN ApiUpdate(i, [timer |-> "fired", phase |-> "done",
                          outcome |-> "timeout", completion |-> "threw"])
       ELSE ApiUpdate(i, [timer |-> "fired"])
    /\ UNCHANGED <<authVars, gateVars>>

\* the timer fires after timeoutMs: controller.abort(). A fetch still pending
\* rejects with the abort error and the catch block returns null; after the
\* call has returned the abort has no effect.
TimerFires(i) ==
    /\ i \in 1..Len(apiCalls)
    /\ apiCalls[i].timer = "armed"
    /\ IF apiCalls[i].phase = "fetching"
       THEN ApiUpdate(i, [timer |-> "fired", phase |-> "done",
                          outcome |-> "timeout", completion |-> "returned",
                          result |-> ApiFetch([kind |-> "timeout", body |-> <<>>])])
       ELSE ApiUpdate(i, [timer |-> "fired"])
    /\ UNCHANGED <<authVars, gateVars>>

\* fetch resolves with a response: clearTimeout, then the branch on res.ok
FetchResolves(i, status) ==
    /\ i \in 1..Len(apiCalls)
    /\ apiCalls[i].phase = "fetching"
    /\ ApiUpdate(i, [timer |-> "cleared", status |-> status,
                     phase |-> IF status = "200" THEN "body" ELSE "errorBody"])
    /\ UNCHANGED <<authVars, gateVars>>

\* res.json() of a 2xx response settles: the parsed body is returned, or the
\* rejection of an unreadable body is caught and null is returned
BodyRead(i, parsed) ==
    /\ i \in 1..Len(apiCalls)
    /\ apiCalls[i].phase = "body"
    /\ LET kind == IF parsed THEN "ok" ELSE "parse"
       IN  ApiUpdate(i, [phase |-> "done", outcome |-> kind,
                         completion |-> "returned",
                         result |-> ApiFetch([kind |-> kind, body |-> ApiBody])])
    /\ UNCHANGED <<authVars, gateVars>>

\* the non-2xx branch: the detail is read (a failure to read it is swallowed),
\* the error is logged and null is returned. Nothing else is done, whatever the
\* status.
ErrorBodyRead(i) ==
    /\ i \in 1..Len(apiCalls)
    /\ apiCalls[i].phase = "errorBody"
    /\ ApiUpdate(i, [phase |-> "done", outcome |-> "http",
                     completion |-> "returned",
                     result |-> ApiFetch([kind |-> "http", body |-> <<>>])])
    /\ UNCHANGED <<authVars, gateVars>>

\* getCandidateStatus(): GET /candidate/status
GetCandidateStatus(outcome) == ApiFetch(outcome)

\* status?.flag: undefined, so falsy, on a null status
Flag(status, flag) == ~status.isNull /\ status.value[flag]

--------------------------------------------------------------------------
(* Progression resolver: the three call sites *)

Sites == {"getStarted", "dashboard", "smartRedirect"}

StatusBodies ==
    [hasOnboarded : BOOLEAN, hasRoadmap : BOOLEAN, hasMentor : BOOLEAN]

\* the landing page's and the login page's session identities
ResolverUsers == {[a EXCEPT !.verified = v] : a \in Accounts, v \in BOOLEAN}

\* router.push(target) at call site s
Push(s, target) == pushes' = [pushes EXCEPT ![s] = Append(@, target)]

\* a resolver that asks for the roadmap before the mentor
DestinationRoadmapFirst(status) ==
    IF Flag(status, "hasRoadmap") THEN "/candidate/mentors"
    ELSE IF Flag(status, "hasMentor") THEN "/candidate/workflow"
    ELSE IF Flag(status, "hasOnboarded") THEN "/candidate/roadmap"
    ELSE "/candidate/onboarding"

\* a resolver that takes a missing status for a finished candidate
DestinationNullIsDone(status) ==
    IF status.isNull \/ Flag(status, "hasMentor") THEN "/candidate/workflow"
    ELSE IF Flag(status, "hasRoadmap") THEN "/candidate/mentors"
    ELSE IF Flag(status, "hasOnboarded") THEN "/candidate/roadmap"
    ELSE "/candidate/onboarding"

\* handleGetStarted, after the await
GetStartedDestination(status) ==
    IF Flag(status, "hasMentor") THEN "/candidate/workflow"
    ELSE IF Flag(status, "hasRoadmap") THEN "/candidate/mentors"
    ELSE IF Flag(status, "hasOnboarded") THEN "/candidate/roadmap"
    ELSE "/candidate/onboarding"

\* handleDashboard, the .then callback
DashboardDestination(status) ==
    IF Flag(status, "hasMentor") THEN "/candidate/workflow"
    ELSE IF Flag(status, "hasRoadmap") THEN "/candidate/mentors"
    ELSE IF Flag(status, "hasOnboarded") THEN "/candidate/roadmap"
    ELSE "/candidate/onboarding"

\* smartRedirect, after the await
SmartRedirectDestination(status) ==
    IF Flag(status, "hasMentor") THEN "/candidate/workflow"
    ELSE IF Flag(status, "hasRoadmap") THEN "/candidate/mentors"
    ELSE IF Flag(status, "hasOnboarded") THEN "/candidate/roadmap"
    ELSE "/candidate/onboarding"

\* "Get Started": no session or not a candidate -> /signup; else ask the backend
HandleGetStarted ==
    /\ sites["getStarted"] = "idle"
    /\ IF user = NoUser
       THEN /\ Push("getStarted", "/signup")
            /\ sites' = [sites EXCEPT !["getStarted"] = "done"]
            /\ UNCHANGED toasts
       ELSE IF user.role # "candidate"
       THEN /\ toasts' = toasts \cup {"Sign up as a candidate to generate your roadmap"}
            /\ Push("getStarted", "/signup")
            /\ sites' = [sites EXCEPT !["getStarted"] = "done"]
       ELSE /\ sites' = [sites EXCEPT !["getStarted"] = "fetching"]
            /\ UNCHANGED <<pushes, toasts>>
    /\ UNCHANGED backend

GetStartedResume ==
    /\ sites["getStarted"] = "fetching"
    /\ Push("getStarted", GetStartedDestination(GetCandidateStatus(backend)))
    /\ sites' = [sites EXCEPT !["getStarted"] = "done"]
    /\ UNCHANGED <<backend, toasts>>

\* "Dashboard": no session -> /login; a mentor by verified; else ask the backend
HandleDashboard ==
    /\ sites["dashboard"] = "idle"
    /\ IF user = NoUser
       THEN /\ Push("dashboard", "/login")
            /\ sites' = [sites EXCEPT !["dashboard"] = "done"]
       ELSE IF user.role = "mentor"
       THEN /\ Push("dashboard", IF user.verified THEN "/mentor/dashboard"
                                                  ELSE "/mentor/verification")
            /\ sites' = [sites EXCEPT !["dashboard"] = "done"]
       ELSE /\ sites' = [sites EXCEPT !["dashboard"] = "fetching"]
            /\ UNCHANGED pushes
    /\ UNCHANGED <<backend, toasts>>

DashboardResume ==
    /\ sites["dashboard"] = "fetching"
    /\ Push("dashboard", DashboardDestination(GetCandidateStatus(backend)))
    /\ sites' = [sites EXCEPT !["dashboard"] = "done"]
    /\ UNCHANGED <<backend, toasts>>

\* a redirect that sends every mentor to the dashboard
SmartRedirectIgnoresVerified(role, verified) ==
    /\ sites["smartRedirect"] = "idle"
    /\ IF role = "mentor"
       THEN /\ Push("smartRedirect", "/mentor/dashboard")
            /\ sites' = [sites EXCEPT !["smartRedirect"] = "done"]
       ELSE /\ sites' = [sites EXCEPT !["smartRedirect"] = "fetching"]
            /\ UNCHANGED pushes
    /\ UNCHANGED <<backend, toasts>>

\* smartRedirect(role, verified), called with the user a login returned
SmartRedirect(role, verified) ==
    /\ sites["smartRedirect"] = "idle"
    /\ IF role = "mentor"
       THEN /\ Push("smartRedirect", IF verified THEN "/mentor/dashboard"
                                                 ELSE "/mentor/verification")
            /\ sites' = [sites EXCEPT !["smartRedirect"] = "done"]
       ELSE /\ sites' = [sites EXCEPT !["smartRedirect"] = "fetching"]
            /\ UNCHANGED pushes
    /\ UNCHANGED <<backend, toasts>>

SmartRedirectResume ==
    /\ sites["smartRedirect"] = "fetching"
    /\ Push("smartRedirect", SmartRedirectDestination(GetCandidateStatus(backend)))
    /\ sites' = [sites EXCEPT !["smartRedirect"] = "done"]
    /\ UNCHANGED <<backend, toasts>>

--------------------------------------------------------------------------
(* Workflow page: the optimistic action-item toggle *)

ItemIds == {"a1", "a2", "a3"}

\* how many of the items are completed
RECURSIVE CompletedCount(_, _)
CompletedCount(items, ids) ==
    IF ids = {} THEN 0
    ELSE LET id == CHOOSE x \in ids : TRUE
         IN  (IF items[id] THEN 1 ELSE 0) + CompletedCount(items, ids \ {id})

\* what a 2xx answer of POST /candidate/toggle-action carries
ToggleActionResponse(itemId, completed) ==
    [actionItemId |-> itemId, completed |-> completed]

\* a client that sends the value the checkbox showed
ToggleRequestShownValue(candidateId, actionItemId, completed) ==
    [candidateId |-> candidateId, actionItemId |-> actionItemId,
     completed |-> ~completed]

\* the body toggleActionItem posts: JSON of { candidateId, actionItemId,
\* completed }
ToggleRequest(candidateId, actionItemId, completed) ==
    [candidateId |-> candidateId, actionItemId |-> actionItemId,
     completed |-> completed]

\* toggleActionItem(candidateId, actionItemId, completed)
ToggleActionItem(itemId, completed, kind) ==
    ApiFetch([kind |-> kind, body |-> ToggleActionResponse(itemId, completed)])

\* the checkbox of item itemId is used: apply locally, then send the request.
\* currentCompleted is the value the rendered checkbox shows.  Each call also
\* notes what the page showed just before it (before, alone): the claims about
\* pre-toggle values are stated against these; no action reads them.
HandleToggleAction(itemId) ==
    LET currentCompleted == actionItems[itemId]
        newCompleted     == ~currentCompleted
    IN  /\ user.id # Null
        /\ Len(toggleCalls) < MaxToggles
        /\ actionItems' = [actionItems EXCEPT ![itemId] = newCompleted]
        /\ stats' = [stats EXCEPT !.completedActions =
                        @ + (IF newCompleted THEN 1 ELSE -1)]
        /\ toggleCalls' = Append(toggleCalls,
              [itemId |-> itemId, currentCompleted |-> currentCompleted,
               request |-> ToggleRequest(user.id, itemId, newCompleted),
               phase |-> "awaiting",
               before |-> [actionItems |-> actionItems,
                           completedActions |-> stats.completedActions],
               alone |-> \A j \in 1..Len(toggleCalls) :
                            toggleCalls[j].phase # "awaiting"])
        /\ UNCHANGED toasts

\* a revert that leaves the counter as the optimistic update set it
ToggleRevertFlagOnly(i) ==
    /\ actionItems' = [actionItems EXCEPT ![toggleCalls[i].itemId] =
                          toggleCalls[i].currentCompleted]
    /\ UNCHANGED stats
    /\ toasts' = toasts \cup {"Failed to update action item"}

\* a revert that puts back everything the page showed before the toggle
ToggleRevertToSnapshot(i) ==
    /\ actionItems' = toggleCalls[i].before.actionItems
    /\ stats' = [stats EXCEPT !.completedActions =
                    toggleCalls[i].before.completedActions]
    /\ toasts' = toasts \cup {"Failed to update action item"}

\* !res: set the item back to currentCompleted, undo the counter step, notify
ToggleRevert(i) ==
    LET itemId           == toggleCalls[i].itemId
        currentCompleted == toggleCalls[i].currentCompleted
        newCompleted     == ~currentCompleted
    IN  /\ actionItems' = [actionItems EXCEPT ![itemId] = currentCompleted]
        /\ stats' = [stats EXCEPT !.completedActions =
                        @ + (IF newCompleted THEN -1 ELSE 1)]
        /\ toasts' = toasts \cup {"Failed to update action item"}

\* the continuation of the i-th toggle after its awaited request ended as kind
ToggleSettle(i, kind) ==
    /\ i \in 1..Len(toggleCalls)
    /\ toggleCalls[i].phase = "awaiting"
    /\ LET res == ToggleActionItem(toggleCalls[i].itemId,
                                   ~toggleCalls[i].currentCompleted, kind)
       IN  IF res.isNull
           THEN /\ ToggleRevert(i)
                /\ toggleCalls' = [toggleCalls EXCEPT ![i].phase = "failed"]
           ELSE /\ toggleCalls' = [toggleCalls EXCEPT ![i].phase = "ok"]
                /\ UNCHANGED <<actionItems, stats, toasts>>

--------------------------------------------------------------------------
(* Workflow page: session completion and the reload that follows it *)

SessionIds == {"s1", "s2"}

\* a session as far as the page shows it: its status and its relative label
\* (relative?: string, Null when the backend sent none)
SessionValues ==
    [status : {"upcoming"}, relative : {Null, "Tomorrow"}]
        \cup [status : {"completed"}, relative : {Null}]

\* the counters GET /candidate/workflow derives from the backend's lists
WorkflowStats(items, sess) ==
    [completedSessions |->
         Cardinality({id \in SessionIds : sess[id].status = "completed"}),
     totalSessions |-> Cardinality(SessionIds),
     completedActions |-> CompletedCount(items, ItemIds),
     totalActions |-> Cardinality(ItemIds),
     completedSteps |-> 0, totalSteps |-> 0]

\* what a 2xx answer of GET /candidate/workflow carries
WorkflowResponse ==
    [sessions |-> server.sessions, actionItems |-> server.actionItems,
     stats |-> WorkflowStats(server.actionItems, server.sessions)]

\* a request the backend has processed can be answered 2xx or time out at the
\* client; one that never reached it, or that it refused, cannot be answered 2xx
Deliverable(isServed, kind) ==
    /\ kind = "ok" => isServed
    /\ kind \in {"network", "http"} => ~isServed

\* what the backend holds after storing the value a toggle request carries
ServerToggle(srv, req) ==
    [srv EXCEPT !.actionItems[req.actionItemId] = req.completed]

\* the backend processes POST /candidate/toggle-action of the i-th toggle
BackendToggle(i) ==
    /\ i \in 1..Len(toggleCalls)
    /\ toggleCalls[i].phase = "awaiting"
    /\ i \notin served.toggles
    /\ server' = ServerToggle(server, toggleCalls[i].request)
    /\ served' = [served EXCEPT !.toggles = @ \cup {i}]
    /\ UNCHANGED <<workflowVars, sessions, sessionCalls>>

\* the i-th toggle's request ends as kind and its continuation runs
ToggleDelivered(i, kind) ==
    /\ Deliverable(i \in served.toggles, kind)
    /\ ToggleSettle(i, kind)
    /\ UNCHANGED syncVars

\* the backend processes POST /candidate/complete-session of the i-th call
BackendComplete(i) ==
    /\ i \in 1..Len(sessionCalls)
    /\ sessionCalls[i].phase = "awaiting"
    /\ i \notin served.completions
    /\ server' = [server EXCEPT !.sessions[sessionCalls[i].sessionId].status =
                     "completed"]
    /\ served' = [served EXCEPT !.completions = @ \cup {i}]
    /\ UNCHANGED <<workflowVars, sessions, sessionCalls>>

\* the backend answers the GET /candidate/workflow that follows the i-th call
BackendWorkflow(i) ==
    /\ i \in 1..Len(sessionCalls)
    /\ sessionCalls[i].phase = "loading"
    /\ served.workflows[i] = NullResult
    /\ served' = [served EXCEPT !.workflows[i] = Payload(WorkflowResponse)]
    /\ UNCHANGED <<workflowVars, sessions, sessionCalls, server>>

\* completeSession(sessionId)
CompleteSession(kind) ==
    ApiFetch([kind |-> kind, body |-> [message |-> "completed"]])

\* getWorkflow(candidateId), whose 2xx answer is the body the backend sent
GetWorkflow(kind, body) == ApiFetch([kind |-> kind, body |-> body])

\* "Mark Complete" / "Complete", rendered for upcoming sessions: apply locally,
\* announce it, then send the request.  before and alone note what the page
\* showed just before the click; no action reads them.
HandleCompleteSession(sessionId) ==
    /\ sessions[sessionId].status = "upcoming"
    /\ Len(sessionCalls) < MaxCompletions
    /\ sessions' = [sessions EXCEPT ![sessionId] =
                       [@ EXCEPT !.status = "completed", !.relative = "Completed"]]
    /\ stats' = [stats EXCEPT !.completedSessions = @ + 1]
    /\ toasts' = toasts \cup {"Session marked as completed!"}
    /\ sessionCalls' = Append(sessionCalls,
          [sessionId |-> sessionId, phase |-> "awaiting",
           before |-> [session |-> sessions[sessionId],
                       completedSessions |-> stats.completedSessions],
           alone |-> /\ \A j \in 1..Len(sessionCalls) :
                          sessionCalls[j].phase \notin {"awaiting", "loading"}
                     /\ \A j \in 1..Len(toggleCalls) :
                          toggleCalls[j].phase # "awaiting"])
    /\ UNCHANGED <<actionItems, toggleCalls, server, served>>

\* the else branch: set the status back to upcoming, undo the counter step,
\* notify
CompleteRevert(i) ==
    /\ sessions' = [sessions EXCEPT ![sessionCalls[i].sessionId].status = "upcoming"]
    /\ stats' = [stats EXCEPT !.completedSessions = @ - 1]
    /\ toasts' = toasts \cup {"Failed to complete session"}

\* handleCompleteSession after its await: on an answer call loadData, which
\* sends GET /candidate/workflow (user.id is set); on null revert
CompleteSettle(i, kind) ==
    /\ i \in 1..Len(sessionCalls)
    /\ sessionCalls[i].phase = "awaiting"
    /\ Deliverable(i \in served.completions, kind)
    /\ IF ~CompleteSession(kind).isNull
       THEN /\ user.id # Null
            /\ sessionCalls' = [sessionCalls EXCEPT ![i].phase = "loading"]
            /\ UNCHANGED <<sessions, stats, toasts>>
       ELSE /\ CompleteRevert(i)
            /\ sessionCalls' = [sessionCalls EXCEPT ![i].phase = "failed"]
    /\ UNCHANGED <<actionItems, toggleCalls, server, served>>

\* loadData after its await: a non-null answer replaces sessions, actionItems
\* and stats; null replaces nothing
LoadSettle(i, kind) ==
    /\ i \in 1..Len(sessionCalls)
    /\ sessionCalls[i].phase = "loading"
    /\ Deliverable(~served.workflows[i].isNull, kind)
    /\ LET res == GetWorkflow(kind, served.workflows[i].value)
       IN  IF ~res.isNull
           THEN /\ sessions' = res.value.sessions
                /\ actionItems' = res.value.actionItems
                /\ stats' = res.value.stats
           ELSE UNCHANGED <<sessions, actionItems, stats>>
    /\ sessionCalls' = [sessionCalls EXCEPT ![i].phase = "ok"]
    /\ UNCHANGED <<toggleCalls, toasts, server, served>>

--------------------------------------------------------------------------
(* Mentor dashboard: accept / decline of mentorship requests *)

RequestIds == {"req1", "req2"}

\* the calendar URL the backend creates for a request
CalendarUrl(reqId) == "calendar/" \o reqId

\* postMentorAccept(mentorshipId); a 2xx answer may carry a calendarUrl
PostMentorAccept(reqId, kind, withUrl) ==
    ApiFetch([kind |-> kind,
              body |-> [calendarUrl |-> IF withUrl THEN CalendarUrl(reqId) ELSE Null]])

\* postMentorDecline(mentorshipId)
PostMentorDecline(reqId, kind) ==
    ApiFetch([kind |-> kind, body |-> [message |-> "declined"]])

\* a click on Accept or Decline: both buttons are rendered for pending requests
\* only; the request leaves, nothing changes locally
MentorCall(kind, reqId) ==
    /\ mentorRequests[reqId] = "pending"
    /\ Len(mentorCalls) < MaxMentorCalls
    /\ mentorCalls' = Append(mentorCalls,
          [kind |-> kind, reqId |-> reqId, phase |-> "awaiting"])
    /\ UNCHANGED <<mentorRequests, calendarInfo, windowsOpened>>

\* an Accept click that opens the calendar before the backend has answered
HandleAcceptSpeculative(reqId) ==
    /\ mentorRequests[reqId] = "pending"
    /\ Len(mentorCalls) < MaxMentorCalls
    /\ mentorCalls' = Append(mentorCalls,
          [kind |-> "accept", reqId |-> reqId, phase |-> "awaiting"])
    /\ windowsOpened' = windowsOpened \cup {CalendarUrl(reqId)}
    /\ UNCHANGED <<mentorRequests, calendarInfo>>

HandleAccept(reqId)  == MentorCall("accept", reqId)

\* a Decline click that marks the request declined before the backend answers
HandleDeclineOptimistic(reqId) ==
    /\ mentorRequests[reqId] = "pending"
    /\ Len(mentorCalls) < MaxMentorCalls
    /\ mentorCalls' = Append(mentorCalls,
          [kind |-> "decline", reqId |-> reqId, phase |-> "awaiting"])
    /\ mentorRequests' = [mentorRequests EXCEPT ![reqId] = "declined"]
    /\ UNCHANGED <<calendarInfo, windowsOpened>>

HandleDecline(reqId) == MentorCall("decline", reqId)

\* handleAccept after its await: on a non-null answer mark the request accepted
\* and, when the answer has a calendarUrl, show the banner and open the URL
AcceptSettle(i, kind, withUrl) ==
    /\ i \in 1..Len(mentorCalls)
    /\ mentorCalls[i].kind = "accept"
    /\ mentorCalls[i].phase = "awaiting"
    /\ LET reqId == mentorCalls[i].reqId
           res   == PostMentorAccept(reqId, kind, withUrl)
       IN  IF ~res.isNull
           THEN /\ mentorRequests' = [mentorRequests EXCEPT ![reqId] = "accepted"]
                /\ IF res.value.calendarUrl # Null
                   THEN /\ calendarInfo' = res.value.calendarUrl
                        /\ windowsOpened' = windowsOpened \cup {res.value.calendarUrl}
                   ELSE UNCHANGED <<calendarInfo, windowsOpened>>
                /\ mentorCalls' = [mentorCalls EXCEPT ![i].phase = "ok"]
           ELSE /\ mentorCalls' = [mentorCalls EXCEPT ![i].phase = "failed"]
                /\ UNCHANGED <<mentorRequests, calendarInfo, windowsOpened>>

\* handleDecline after its await: on a non-null answer mark the request declined
DeclineSettle(i, kind) ==
    /\ i \in 1..Len(mentorCalls)
    /\ mentorCalls[i].kind = "decline"
    /\ mentorCalls[i].phase = "awaiting"
    /\ LET reqId == mentorCalls[i].reqId
           res   == PostMentorDecline(reqId, kind)
       IN  IF ~res.isNull
           THEN /\ mentorRequests' = [mentorRequests EXCEPT ![reqId] = "declined"]
                /\ mentorCalls' = [mentorCalls EXCEPT ![i].phase = "ok"]
           ELSE /\ mentorCalls' = [mentorCalls EXCEPT ![i].phase = "failed"]
                /\ UNCHANGED mentorRequests
    /\ UNCHANGED <<calendarInfo, windowsOpened>>

--------------------------------------------------------------------------
(* Mentor verification page *)

\* Texts of the URL field, as the pieces that matter to the page's test. The
\* last one is no LinkedIn address but contains the piece the test looks for.
UrlInputs ==
    { <<>>,
      <<"https://", "linkedin.com", "/in/ada">>,
      <<"https://", "example.com", "/ada">>,
      <<"linkedin">>,
      <<"https://", "example.com", "/?ref=", "linkedin.com">> }

\* the URL the backend holds for a mentor who has submitted one
StoredUrl == <<"https://", "linkedin.com", "/in/stored">>

\* String.prototype.includes on a text made of pieces
Includes(text, piece) == \E k \in 1..Len(text) : text[k] = piece

\* what GET /mentor/verification-status can answer
StatusData ==
    [verified : BOOLEAN, pending : BOOLEAN, linkedinUrl : {<<>>, StoredUrl}]

\* getMentorVerificationStatus(): GET /mentor/verification-status
GetMentorVerificationStatus(kind, data) == ApiFetch([kind |-> kind, body |-> data])

\* postMentorVerifySubmit(linkedinUrl): POST /mentor/verify-submit
PostMentorVerifySubmit(kind, url) ==
    ApiFetch([kind |-> kind,
              body |-> [message |-> "submitted", status |-> "pending"]])

\* a page that looks at pending before verified
StatusOfPendingFirst(data) ==
    IF data.isNull THEN "unsubmitted"
    ELSE IF data.value.pending THEN "pending"
    ELSE IF data.value.verified THEN "verified"
    ELSE "unsubmitted"

\* the branches of the load effect on the answer of the status request
StatusOf(data) ==
    IF data.isNull THEN "unsubmitted"
    ELSE IF data.value.verified THEN "verified"
    ELSE IF data.value.pending THEN "pending"
    ELSE "unsubmitted"

\* the load effect, run when the page mounts (and again if token changed):
\* without a token it replaces the route with /login and asks nothing
VerifyLoad ==
    /\ verifyCalls = <<>>
    /\ IF token = Null
       THEN /\ gateRedirect' = "/login"
            /\ UNCHANGED verifyCalls
       ELSE /\ verifyCalls' = <<[kind |-> "status", phase |-> "awaiting",
                                 url |-> <<>>, response |-> NullResult]>>
            /\ UNCHANGED gateRedirect
    /\ UNCHANGED <<authVars, allowedRoles, gateView, toasts,
                   verificationStatus, linkedinUrl, verifyIsSubmitting>>

\* the status request ends: the continuation of load
StatusSettle(i, kind, data) ==
    /\ i \in 1..Len(verifyCalls)
    /\ verifyCalls[i].kind = "status"
    /\ verifyCalls[i].phase = "awaiting"
    /\ LET res == GetMentorVerificationStatus(kind, data)
       IN  /\ verificationStatus' = StatusOf(res)
           /\ linkedinUrl' =
                 IF /\ ~res.isNull
                    /\ ~res.value.verified
                    /\ res.value.pending
                    /\ res.value.linkedinUrl # <<>>
                 THEN res.value.linkedinUrl
                 ELSE linkedinUrl
           /\ verifyCalls' = [verifyCalls EXCEPT ![i] =
                 [@ EXCEPT !.phase = IF res.isNull THEN "failed" ELSE "ok",
                           !.response = res]]
    /\ UNCHANGED <<authVars, gateVars, toasts, verifyIsSubmitting>>

\* typing into the URL field; the form is on screen for unsubmitted only
SetLinkedinUrl(url) ==
    /\ verificationStatus = "unsubmitted"
    /\ linkedinUrl' = url
    /\ UNCHANGED <<authVars, gateVars, toasts, verificationStatus,
                   verifyIsSubmitting, verifyCalls>>

\* a form that sends whatever the field holds
HandleSubmitUnchecked ==
    /\ verificationStatus = "unsubmitted"
    /\ ~verifyIsSubmitting
    /\ verifyIsSubmitting' = TRUE
    /\ verifyCalls' = Append(verifyCalls,
          [kind |-> "submit", phase |-> "awaiting", url |-> linkedinUrl,
           response |-> NullResult])
    /\ UNCHANGED <<authVars, gateVars, toasts, verificationStatus, linkedinUrl>>

\* handleSubmit up to its await. The form is rendered for unsubmitted, and its
\* button is disabled while isSubmitting.
HandleSubmit ==
    /\ verificationStatus = "unsubmitted"
    /\ ~verifyIsSubmitting
    /\ IF ~Includes(linkedinUrl, "linkedin.com")
       THEN /\ toasts' = toasts \cup {"Please enter a valid LinkedIn URL"}
            /\ UNCHANGED <<verifyIsSubmitting, verifyCalls>>
       ELSE /\ verifyIsSubmitting' = TRUE
            /\ verifyCalls' = Append(verifyCalls,
                  [kind |-> "submit", phase |-> "awaiting", url |-> linkedinUrl,
                   response |-> NullResult])
            /\ UNCHANGED toasts
    /\ UNCHANGED <<authVars, gateVars, verificationStatus, linkedinUrl>>

\* the submit request ends: the continuation of handleSubmit
SubmitSettle(i, kind) ==
    /\ i \in 1..Len(verifyCalls)
    /\ verifyCalls[i].kind = "submit"
    /\ verifyCalls[i].phase = "awaiting"
    /\ LET res == PostMentorVerifySubmit(kind, verifyCalls[i].url)
       IN  /\ IF res.isNull
              THEN /\ toasts' = toasts \cup {"Submission failed. Please try again."}
                   /\ UNCHANGED verificationStatus
              ELSE /\ verificationStatus' = "pending"
                   /\ toasts' = toasts \cup {"Verification request submitted!"}
           /\ verifyCalls' = [verifyCalls EXCEPT ![i] =
                 [@ EXCEPT !.phase = IF res.isNull THEN "failed" ELSE "ok",
                           !.response = res]]
    /\ verifyIsSubmitting' = FALSE
    /\ UNCHANGED <<authVars, gateVars, linkedinUrl>>

--------------------------------------------------------------------------
(* Onboarding wizard *)

\* steps.length
TotalSteps == 5

\* the field each step edits, and the values given to it here
StepFields ==
    << [field |-> "careerGoal",      values |-> {"", " ", "backend"}],
       [field |-> "targetRole",      values |-> {"", "SRE"}],
       [field |-> "skillLevel",      values |-> {"", "beginner"}],
       [field |-> "experienceLevel", values |-> {"", "1-2"}],
       [field |-> "resumeUploaded",  values |-> BOOLEAN] >>

\* useState({...}): the empty form
EmptyForm ==
    [careerGoal |-> "", targetRole |-> "", targetCompany |-> "",
     skillLevel |-> "", experienceLevel |-> "", resumeUploaded |-> FALSE]

\* String.prototype.trim on the values used here
Trim(text) == IF text = " " THEN "" ELSE text

\* JSON.stringify(formData)
Stringify(fd) ==
    "{careerGoal:" \o fd.careerGoal \o ",targetRole:" \o fd.targetRole
      \o ",targetCompany:" \o fd.targetCompany
      \o ",skillLevel:" \o fd.skillLevel
      \o ",experienceLevel:" \o fd.experienceLevel
      \o ",resumeUploaded:" \o (IF fd.resumeUploaded THEN "true" ELSE "false")
      \o "}"

\* canProceed(): whether the Continue button is enabled
CanProceed ==
    CASE currentStep = 1 -> Trim(formData.careerGoal) # ""
      [] currentStep = 2 -> Trim(formData.targetRole) # ""
      [] currentStep = 3 -> formData.skillLevel # ""
      [] currentStep = 4 -> formData.experienceLevel # ""
      [] currentStep = 5 -> TRUE
      [] OTHER -> FALSE

\* the wizard is on screen until router.push has left the page
WizardShown == currentStep \in 1..TotalSteps /\ pushes["onboarding"] = <<>>

\* postOnboarding(formData): POST /candidate/onboarding
PostOnboarding(kind, fd) ==
    ApiFetch([kind |-> kind, body |-> [message |-> "saved"]])

\* setFormData({...formData, field: value}) from the current step's control
SetFormData(step, value) ==
    /\ WizardShown
    /\ currentStep = step
    /\ formData' = [formData EXCEPT ![StepFields[step].field] = value]
    /\ UNCHANGED <<authVars, gateVars, pushes, currentStep, wizardIsSubmitting,
                   wizardCalls>>

\* handleNext up to its await; the button is disabled unless canProceed() and
\* while isSubmitting
HandleNext ==
    /\ WizardShown
    /\ CanProceed
    /\ ~wizardIsSubmitting
    /\ IF currentStep < TotalSteps
       THEN /\ currentStep' = currentStep + 1
            /\ UNCHANGED <<wizardIsSubmitting, wizardCalls>>
       ELSE /\ wizardIsSubmitting' = TRUE
            /\ wizardCalls' = Append(wizardCalls,
                  [formData |-> formData, phase |-> "awaiting"])
            /\ UNCHANGED currentStep
    /\ UNCHANGED <<authVars, gateVars, pushes, formData>>

\* handleBack; the button is disabled on the first step only
HandleBack ==
    /\ WizardShown
    /\ currentStep > 1
    /\ currentStep' = currentStep - 1
    /\ UNCHANGED <<authVars, gateVars, pushes, formData, wizardIsSubmitting,
                   wizardCalls>>

\* a wizard that goes on only when the backend has stored the answers
OnboardingSettleOnSuccess(i, kind) ==
    /\ i \in 1..Len(wizardCalls)
    /\ wizardCalls[i].phase = "awaiting"
    /\ LET res == PostOnboarding(kind, wizardCalls[i].formData)
       IN  /\ wizardCalls' = [wizardCalls EXCEPT ![i].phase =
                                 IF res.isNull THEN "failed" ELSE "ok"]
           /\ IF res.isNull
              THEN UNCHANGED <<localStorage, pushes>>
              ELSE /\ localStorage' =
                         [localStorage EXCEPT !["onboardingData"] =
                             Stringify(wizardCalls[i].formData)]
                   /\ Push("onboarding", "/candidate/roadmap")
    /\ wizardIsSubmitting' = FALSE
    /\ UNCHANGED <<user, token, isLoading, restore, authCalls, afterLogout,
                   gateVars, currentStep, formData>>

\* postOnboarding has resolved: the rest of handleNext, which does not look at
\* the result. It stores the formData of the render whose button was clicked.
OnboardingSettle(i, kind) ==
    /\ i \in 1..Len(wizardCalls)
    /\ wizardCalls[i].phase = "awaiting"
    /\ LET res == PostOnboarding(kind, wizardCalls[i].formData)
       IN  wizardCalls' = [wizardCalls EXCEPT ![i].phase =
                             IF res.isNull THEN "failed" ELSE "ok"]
    /\ localStorage' = [localStorage EXCEPT !["onboardingData"] =
                           Stringify(wizardCalls[i].formData)]
    /\ wizardIsSubmitting' = FALSE
    /\ Push("onboarding", "/candidate/roadmap")
    /\ UNCHANGED <<user, token, isLoading, restore, authCalls, afterLogout,
                   gateVars, currentStep, formData>>

\* the pages that a specification leaves out stay unmounted
ResolverIdle == backend = Null /\ sites = <<>> /\ pushes = <<>>
WorkflowIdle == actionItems = <<>> /\ stats = <<>> /\ toggleCalls = <<>> /\ toasts = {}
MentorIdle   ==
    /\ mentorRequests = <<>> /\ mentorCalls = <<>>
    /\ calendarInfo = Null /\ windowsOpened = {}
SyncIdle     ==
    /\ sessions = <<>> /\ sessionCalls = <<>>
    /\ server = <<>> /\ served = <<>>

ApiIdle      == apiCalls = <<>>
VerifyIdle   ==
    /\ verificationStatus = Null /\ linkedinUrl = <<>>
    /\ verifyIsSubmitting = FALSE /\ verifyCalls = <<>>
WizardIdle   ==
    /\ currentStep = 0 /\ formData = <<>>
    /\ wizardIsSubmitting = FALSE /\ wizardCalls = <<>>
LoginIdle    ==
    /\ loginEmail = "" /\ loginPassword = ""
    /\ loginIsLoading = FALSE /\ loginCalls = <<>>
AdminIdle    ==
    /\ adminAuthToken = Null /\ adminStorage = <<>>
    /\ layoutReady = FALSE /\ adminRoute = Null /\ adminLoading = FALSE
    /\ dialogAction = <<>> /\ rejectReason = ""
    /\ localMentors = <<>> /\ pendingMentors = {}
    /\ actionLoading = FALSE /\ adminCalls = <<>>
PagesIdle    == ApiIdle /\ VerifyIdle /\ WizardIdle /\ LoginIdle /\ AdminIdle

\* the state after the first render of a guarded page, before any effect ran
InitSession ==
    /\ user = NoUser
    /\ token = Null
    /\ isLoading = TRUE
    /\ \E stored \in {Null, StaleToken}, cached \in {Null, "cached"} :
          localStorage = [k \in StorageKeys |->
                            IF k = "guided_token" THEN stored ELSE cached]
    /\ restore = [phase |-> "unmounted", data |-> NoUser]
    /\ authCalls = <<>>
    /\ afterLogout = FALSE
    /\ allowedRoles \in {{"candidate"}, {"mentor"}, {"admin"}}
    /\ gateView = RouteGuardRender(NoUser, TRUE, allowedRoles)
    /\ gateRedirect = Null
    /\ ResolverIdle /\ WorkflowIdle /\ SyncIdle /\ MentorIdle /\ PagesIdle

NextSession ==
    \/ Mount /\ UNCHANGED <<resolverVars, workflowVars, syncVars, mentorVars, pageVars>>
    \/ \E data \in Accounts :
          RestoreOk(data) /\ UNCHANGED <<resolverVars, workflowVars, syncVars, mentorVars, pageVars>>
    \/ RestoreFail /\ UNCHANGED <<resolverVars, workflowVars, syncVars, mentorVars, pageVars>>
    \/ \E acct \in Accounts :
          Login(acct) /\ UNCHANGED <<resolverVars, workflowVars, syncVars, mentorVars, pageVars>>
    \/ \E acct \in Accounts :
          Signup(acct) /\ UNCHANGED <<resolverVars, workflowVars, syncVars, mentorVars, pageVars>>
    \/ \E i \in 1..MaxAuthCalls, outcome \in {"ok", "rejected", "network"} :
          AuthSettle(i, outcome) /\ UNCHANGED <<resolverVars, workflowVars, syncVars, mentorVars, pageVars>>
    \/ Logout /\ UNCHANGED <<resolverVars, workflowVars, syncVars, mentorVars, pageVars>>

SpecSession == InitSession /\ [][NextSession]_vars

\* The provider under the scheduling the code relies on: React runs the mount
\* effect of a mounted provider. The effect waits for /auth/me with a bare
\* fetch, no timer and no abort signal, so nothing on the client bounds that
\* wait and no fairness is stated for the answer.
SpecSessionLive ==
    SpecSession
      /\ WF_vars(Mount /\ UNCHANGED <<resolverVars, workflowVars, syncVars,
                                      mentorVars, pageVars>>)

--------------------------------------------------------------------------
(* The resolver's call sites, run on one session and one backend answer *)

\* a settled session (or none), and how the status request will end
InitResolver ==
    /\ user \in ResolverUsers \cup {NoUser}
    /\ token = (IF user = NoUser THEN Null ELSE StaleToken)
    /\ isLoading = FALSE
    /\ localStorage = [k \in StorageKeys |->
                         IF k = "guided_token" THEN token ELSE Null]
    /\ restore = [phase |-> IF user = NoUser THEN "done" ELSE "restored",
                  data |-> user]
    /\ authCalls = <<>>
    /\ afterLogout = FALSE
    /\ allowedRoles = {"candidate"}
    /\ gateView = RouteGuardRender(user, FALSE, allowedRoles)
    /\ gateRedirect = Null
    /\ backend \in [kind : {"ok"}, body : StatusBodies]
                    \cup [kind : FailureKinds, body : {<<>>}]
    /\ sites = [s \in Sites |-> "idle"]
    /\ pushes = [s \in Sites |-> <<>>]
    /\ WorkflowIdle /\ SyncIdle /\ MentorIdle /\ PagesIdle

NextResolver ==
    \/ HandleGetStarted /\ UNCHANGED <<authVars, gateVars, actionItems, stats, toggleCalls, syncVars, mentorVars, pageVars>>
    \/ GetStartedResume /\ UNCHANGED <<authVars, gateVars, actionItems, stats, toggleCalls, syncVars, mentorVars, pageVars>>
    \/ HandleDashboard /\ UNCHANGED <<authVars, gateVars, actionItems, stats, toggleCalls, syncVars, mentorVars, pageVars>>
    \/ DashboardResume /\ UNCHANGED <<authVars, gateVars, actionItems, stats, toggleCalls, syncVars, mentorVars, pageVars>>
    \/ /\ user # NoUser
       /\ SmartRedirect(user.role, user.verified)
       /\ UNCHANGED <<authVars, gateVars, actionItems, stats, toggleCalls, syncVars, mentorVars, pageVars>>
    \/ SmartRedirectResume /\ UNCHANGED <<authVars, gateVars, actionItems, stats, toggleCalls, syncVars, mentorVars, pageVars>>

SpecResolver == InitResolver /\ [][NextResolver]_vars

--------------------------------------------------------------------------
(* The workflow page of a signed-in candidate, after its data has loaded *)

\* a settled candidate session on a page that admits candidates
CandidateSession ==
    /\ user \in {a \in Accounts : a.role = "candidate"}
    /\ token = StaleToken
    /\ isLoading = FALSE
    /\ localStorage = [k \in StorageKeys |->
                         IF k = "guided_token" THEN token ELSE Null]
    /\ restore = [phase |-> "restored", data |-> user]
    /\ authCalls = <<>>
    /\ afterLogout = FALSE
    /\ allowedRoles = {"candidate"}
    /\ gateView = RouteGuardRender(user, FALSE, allowedRoles)
    /\ gateRedirect = Null

\* loadData has stored the backend's items and the counters it derived from them
InitWorkflow ==
    /\ CandidateSession
    /\ actionItems \in [ItemIds -> BOOLEAN]
    /\ stats = [completedSessions |-> 0, totalSessions |-> 0,
                completedActions |-> CompletedCount(actionItems, ItemIds),
                totalActions |-> Cardinality(ItemIds),
                completedSteps |-> 0, totalSteps |-> 0]
    /\ toggleCalls = <<>>
    /\ toasts = {}
    /\ ResolverIdle /\ SyncIdle /\ MentorIdle /\ PagesIdle

NextWorkflow ==
    \/ \E itemId \in ItemIds :
          HandleToggleAction(itemId)
            /\ UNCHANGED <<authVars, gateVars, resolverVars, syncVars, mentorVars, pageVars>>
    \/ \E i \in 1..MaxToggles, kind \in {"ok"} \cup FailureKinds :
          ToggleSettle(i, kind)
            /\ UNCHANGED <<authVars, gateVars, resolverVars, syncVars, mentorVars, pageVars>>

SpecWorkflow == InitWorkflow /\ [][NextWorkflow]_vars

--------------------------------------------------------------------------
(* The workflow page together with the backend it synchronises with *)

\* loadData has stored what the backend holds
InitSync ==
    /\ CandidateSession
    /\ server \in [actionItems : [ItemIds -> BOOLEAN],
                   sessions : [SessionIds -> SessionValues]]
    /\ served = [toggles |-> {}, completions |-> {},
                 workflows |-> [i \in 1..MaxCompletions |-> NullResult]]
    /\ actionItems = server.actionItems
    /\ sessions = server.sessions
    /\ stats = WorkflowStats(server.actionItems, server.sessions)
    /\ toggleCalls = <<>>
    /\ sessionCalls = <<>>
    /\ toasts = {}
    /\ ResolverIdle /\ MentorIdle /\ PagesIdle

NextSync ==
    \/ \E itemId \in ItemIds :
          /\ Len(toggleCalls) < MaxSyncToggles
          /\ HandleToggleAction(itemId)
          /\ UNCHANGED <<authVars, gateVars, resolverVars, syncVars, mentorVars, pageVars>>
    \/ \E i \in 1..MaxToggles :
          BackendToggle(i) /\ UNCHANGED <<authVars, gateVars, resolverVars, mentorVars, pageVars>>
    \/ \E i \in 1..MaxToggles, kind \in {"ok"} \cup FailureKinds :
          ToggleDelivered(i, kind)
            /\ UNCHANGED <<authVars, gateVars, resolverVars, mentorVars, pageVars>>
    \/ \E sessionId \in SessionIds :
          HandleCompleteSession(sessionId)
            /\ UNCHANGED <<authVars, gateVars, resolverVars, mentorVars, pageVars>>
    \/ \E i \in 1..MaxCompletions :
          BackendComplete(i) /\ UNCHANGED <<authVars, gateVars, resolverVars, mentorVars, pageVars>>
    \/ \E i \in 1..MaxCompletions, kind \in {"ok"} \cup FailureKinds :
          CompleteSettle(i, kind)
            /\ UNCHANGED <<authVars, gateVars, resolverVars, mentorVars, pageVars>>
    \/ \E i \in 1..MaxCompletions :
          BackendWorkflow(i) /\ UNCHANGED <<authVars, gateVars, resolverVars, mentorVars, pageVars>>
    \/ \E i \in 1..MaxCompletions, kind \in {"ok"} \cup FailureKinds :
          LoadSettle(i, kind)
            /\ UNCHANGED <<authVars, gateVars, resolverVars, mentorVars, pageVars>>

SpecSync == InitSync /\ [][NextSync]_vars

--------------------------------------------------------------------------
(* The mentor dashboard of a signed-in mentor, after its data has loaded *)

MentorSession ==
    /\ user \in {a \in Accounts : a.role = "mentor"}
    /\ token = StaleToken
    /\ isLoading = FALSE
    /\ localStorage = [k \in StorageKeys |->
                         IF k = "guided_token" THEN token ELSE Null]
    /\ restore = [phase |-> "restored", data |-> user]
    /\ authCalls = <<>>
    /\ afterLogout = FALSE
    /\ allowedRoles = {"mentor"}
    /\ gateView = RouteGuardRender(user, FALSE, allowedRoles)
    /\ gateRedirect = Null

\* getMentorDashboard has answered with the requests and their statuses
InitMentor ==
    /\ MentorSession
    /\ mentorRequests \in [RequestIds -> {"pending", "accepted", "declined"}]
    /\ mentorCalls = <<>>
    /\ calendarInfo = Null
    /\ windowsOpened = {}
    /\ ResolverIdle /\ WorkflowIdle /\ SyncIdle /\ PagesIdle

NextMentor ==
    \/ \E reqId \in RequestIds :
          HandleAccept(reqId)
            /\ UNCHANGED <<authVars, gateVars, resolverVars, workflowVars, syncVars, pageVars>>
    \/ \E reqId \in RequestIds :
          HandleDecline(reqId)
            /\ UNCHANGED <<authVars, gateVars, resolverVars, workflowVars, syncVars, pageVars>>
    \/ \E i \in 1..MaxMentorCalls, kind \in {"ok"} \cup FailureKinds,
          withUrl \in BOOLEAN :
          AcceptSettle(i, kind, withUrl)
            /\ UNCHANGED <<authVars, gateVars, resolverVars, workflowVars, syncVars, pageVars>>
    \/ \E i \in 1..MaxMentorCalls, kind \in {"ok"} \cup FailureKinds :
          DeclineSettle(i, kind)
            /\ UNCHANGED <<authVars, gateVars, resolverVars, workflowVars, syncVars, pageVars>>

SpecMentor == InitMentor /\ [][NextMentor]_vars

--------------------------------------------------------------------------
(* The verification page of a signed-in mentor *)

\* the first render: status is "loading", the field is empty
InitVerification ==
    /\ MentorSession
    /\ verificationStatus = "loading"
    /\ linkedinUrl = <<>>
    /\ verifyIsSubmitting = FALSE
    /\ verifyCalls = <<>>
    /\ toasts = {}
    /\ actionItems = <<>> /\ stats = <<>> /\ toggleCalls = <<>>
    /\ ResolverIdle /\ SyncIdle /\ MentorIdle /\ ApiIdle /\ WizardIdle
    /\ LoginIdle /\ AdminIdle

VerifyRest ==
    <<resolverVars, actionItems, stats, toggleCalls, syncVars, mentorVars,
      apiVars, wizardVars, loginVars, adminVars>>

NextVerification ==
    \/ VerifyLoad /\ UNCHANGED VerifyRest
    \/ \E i \in 1..(MaxSubmits + 1), data \in StatusData :
          StatusSettle(i, "ok", data) /\ UNCHANGED VerifyRest
    \/ \E i \in 1..(MaxSubmits + 1), kind \in FailureKinds :
          StatusSettle(i, kind, [verified |-> FALSE, pending |-> FALSE,
                                 linkedinUrl |-> <<>>])
            /\ UNCHANGED VerifyRest
    \/ \E url \in UrlInputs : SetLinkedinUrl(url) /\ UNCHANGED VerifyRest
    \/ /\ Len(verifyCalls) < MaxSubmits + 1
       /\ HandleSubmit
       /\ UNCHANGED VerifyRest
    \/ \E i \in 1..(MaxSubmits + 1), kind \in {"ok"} \cup FailureKinds :
          SubmitSettle(i, kind) /\ UNCHANGED VerifyRest

SpecVerification == InitVerification /\ [][NextVerification]_vars

--------------------------------------------------------------------------
(* The onboarding wizard of a signed-in candidate *)

\* the first render: step 1, the empty form
InitOnboarding ==
    /\ CandidateSession
    /\ currentStep = 1
    /\ formData = EmptyForm
    /\ wizardIsSubmitting = FALSE
    /\ wizardCalls = <<>>
    /\ backend = Null /\ sites = <<>>
    /\ pushes = [s \in {"onboarding"} |-> <<>>]
    /\ WorkflowIdle /\ SyncIdle /\ MentorIdle /\ ApiIdle /\ VerifyIdle
    /\ LoginIdle /\ AdminIdle

WizardRest ==
    <<backend, sites, workflowVars, syncVars, mentorVars, apiVars, verifyVars,
      loginVars, adminVars>>

NextOnboarding ==
    \/ \E step \in 1..TotalSteps :
          \E value \in StepFields[step].values :
              SetFormData(step, value) /\ UNCHANGED WizardRest
    \/ HandleNext /\ UNCHANGED WizardRest
    \/ HandleBack /\ UNCHANGED WizardRest
    \/ \E i \in DOMAIN wizardCalls, kind \in {"ok"} \cup FailureKinds :
          OnboardingSettle(i, kind) /\ UNCHANGED WizardRest

SpecOnboarding == InitOnboarding /\ [][NextOnboarding]_vars

--------------------------------------------------------------------------
(* The action-item toggles of the workflow page and the backend storing them *)

\* loadData has stored what the backend holds; the sessions are left alone
InitDelivery ==
    /\ CandidateSession
    /\ server \in [actionItems : [ItemIds -> BOOLEAN],
                   sessions : {[s \in SessionIds |->
                                  [status |-> "upcoming", relative |-> Null]]}]
    /\ served = [toggles |-> {}, completions |-> {},
                 workflows |-> [i \in 1..MaxCompletions |-> NullResult]]
    /\ actionItems = server.actionItems
    /\ sessions = server.sessions
    /\ stats = WorkflowStats(server.actionItems, server.sessions)
    /\ toggleCalls = <<>>
    /\ sessionCalls = <<>>
    /\ toasts = {}
    /\ ResolverIdle /\ MentorIdle /\ PagesIdle

NextDelivery ==
    \/ \E itemId \in ItemIds :
          /\ Len(toggleCalls) < MaxWireToggles
          /\ HandleToggleAction(itemId)
          /\ UNCHANGED <<authVars, gateVars, resolverVars, syncVars, mentorVars,
                         pageVars>>
    \/ \E i \in 1..MaxWireToggles :
          BackendToggle(i)
            /\ UNCHANGED <<authVars, gateVars, resolverVars, mentorVars, pageVars>>
    \/ \E i \in 1..MaxWireToggles, kind \in {"ok"} \cup FailureKinds :
          ToggleDelivered(i, kind)
            /\ UNCHANGED <<authVars, gateVars, resolverVars, mentorVars, pageVars>>

SpecDelivery == InitDelivery /\ [][NextDelivery]_vars

--------------------------------------------------------------------------
(* The API client next to the session it reads its token from *)

\* a settled session: a signed-in candidate whose token is persisted, or nobody
InitApi ==
    /\ user \in {a \in Accounts : a.role = "candidate"} \cup {NoUser}
    /\ token = (IF user = NoUser THEN Null ELSE StaleToken)
    /\ isLoading = FALSE
    /\ localStorage = [k \in StorageKeys |->
                         IF k = "guided_token" THEN token ELSE Null]
    /\ restore = [phase |-> IF user = NoUser THEN "done" ELSE "restored",
                  data |-> user]
    /\ authCalls = <<>>
    /\ afterLogout = FALSE
    /\ allowedRoles = {"candidate"}
    /\ gateView = RouteGuardRender(user, FALSE, allowedRoles)
    /\ gateRedirect = RouteGuardEffect(user, FALSE, allowedRoles)
    /\ apiCalls = <<>>
    /\ ResolverIdle /\ WorkflowIdle /\ SyncIdle /\ MentorIdle
    /\ VerifyIdle /\ WizardIdle /\ LoginIdle /\ AdminIdle

ApiRest ==
    <<resolverVars, workflowVars, syncVars, mentorVars, verifyVars, wizardVars,
      loginVars, adminVars>>

NextApi ==
    \/ /\ Len(apiCalls) < MaxApiCalls
       /\ ApiCall
       /\ UNCHANGED ApiRest
    \/ \E i \in 1..MaxApiCalls : FetchRejects(i) /\ UNCHANGED ApiRest
    \/ \E i \in 1..MaxApiCalls : TimerFires(i) /\ UNCHANGED ApiRest
    \/ \E i \in 1..MaxApiCalls, status \in ApiStatuses :
          FetchResolves(i, status) /\ UNCHANGED ApiRest
    \/ \E i \in 1..MaxApiCalls, parsed \in BOOLEAN :
          BodyRead(i, parsed) /\ UNCHANGED ApiRest
    \/ \E i \in 1..MaxApiCalls : ErrorBodyRead(i) /\ UNCHANGED ApiRest
    \/ \E acct \in Accounts :
          /\ Len(authCalls) < MaxApiLogins
          /\ Login(acct)
          /\ UNCHANGED <<apiVars, ApiRest>>
    \/ \E acct \in Accounts :
          /\ Len(authCalls) < MaxApiLogins
          /\ Signup(acct)
          /\ UNCHANGED <<apiVars, ApiRest>>
    \/ \E i \in 1..MaxAuthCalls, outcome \in {"ok", "rejected", "network"} :
          AuthSettle(i, outcome) /\ UNCHANGED <<apiVars, ApiRest>>
    \/ Logout /\ UNCHANGED <<apiVars, ApiRest>>

SpecApi == InitApi /\ [][NextApi]_vars

\* C1: in every reachable state the guard's committed render shows the children
\* only if the session has finished loading, an identity is present and its role
\* is one of the page's allowed roles.
C1_GateShowsChildrenOnlyToAllowed ==
    gateView = "children" =>
        /\ ~isLoading
        /\ user # NoUser
        /\ user.role \in allowedRoles

\* C9 as claimed: when the validation of a stored token succeeds, the identity
\* after restoration is the validation response; when it fails, the in-memory
\* token, the persisted token and the identity are all cleared.
C9_RestoreSettlesSession ==
    [][ /\ (restore.phase = "validating" /\ restore'.phase = "restored")
             => user' = restore'.data
        /\ (restore.phase = "validating" /\ restore'.phase = "rejected")
             => /\ token' = Null
                /\ localStorage'["guided_token"] = Null
                /\ user' = NoUser ]_vars

\* C10: the step that settles a login or signup call either sets the persisted
\* token, the in-memory token and the identity from that call's response (and
\* then returns success), or changes none of the three (and returns failure).
C10_AuthNeverPartial ==
    [][ \A i \in 1..Len(authCalls) :
          (authCalls[i].phase = "awaiting" /\ authCalls'[i].phase # "awaiting") =>
             IF authCalls'[i].result.success
             THEN /\ localStorage'["guided_token"] = Tok(i)
                  /\ token' = Tok(i)
                  /\ user' = authCalls[i].acct
                  /\ authCalls'[i].result.user = user'
             ELSE /\ localStorage'["guided_token"] = localStorage["guided_token"]
                  /\ token' = token
                  /\ user' = user ]_vars

\* C10, witness: one call was accepted and the three parts of the session are
\* its response's, and another call has failed since without touching them.
C10_Witness ==
    \E i, j \in 1..Len(authCalls) :
        /\ i < j
        /\ authCalls[i].phase = "ok"
        /\ authCalls[j].phase = "failed"
        /\ localStorage["guided_token"] = Tok(i)
        /\ token = Tok(i)
        /\ user = authCalls[i].acct

\* C2: for a candidate and every combination of the progress flags, each call
\* site pushes exactly one destination, the first match of hasMentor ->
\* workflow, hasRoadmap -> mentors, hasOnboarded -> roadmap, else onboarding.
C2_CandidatePriority ==
    \A s \in Sites :
        /\ Len(pushes[s]) = (IF sites[s] = "done" THEN 1 ELSE 0)
        /\ (user.role = "candidate" /\ backend.kind = "ok" /\ sites[s] = "done") =>
              LET f == backend.body
                  d == pushes[s][1]
              IN  /\ f.hasMentor => d = "/candidate/workflow"
                  /\ (~f.hasMentor /\ f.hasRoadmap) => d = "/candidate/mentors"
                  /\ (~f.hasMentor /\ ~f.hasRoadmap /\ f.hasOnboarded)
                        => d = "/candidate/roadmap"
                  /\ (~f.hasMentor /\ ~f.hasRoadmap /\ ~f.hasOnboarded)
                        => d = "/candidate/onboarding"

\* C2, witness: hasMentor without the two earlier flags, resolved to the workflow
\* by the post-login redirect and by "Get Started".
C2_Witness ==
    /\ user.role = "candidate"
    /\ backend.kind = "ok"
    /\ backend.body = [hasOnboarded |-> FALSE, hasRoadmap |-> FALSE, hasMentor |-> TRUE]
    /\ pushes["smartRedirect"] = <<"/candidate/workflow">>
    /\ pushes["getStarted"] = <<"/candidate/workflow">>

\* C3: a call site that awaits the status and gets a failed fetch (network
\* error, timeout or non-2xx) ends by pushing /candidate/onboarding, and nothing
\* else; it does not end without a destination.
C3_FailedFetchFallsBack ==
    [][ \A s \in Sites :
          (sites[s] = "fetching" /\ backend.kind \in FailureKinds
             /\ sites'[s] # "fetching") =>
                /\ sites'[s] = "done"
                /\ pushes'[s] = <<"/candidate/onboarding">> ]_vars

\* C3, witness: after a timed-out status request all three call sites have
\* sent the candidate to onboarding.
C3_Witness ==
    /\ backend.kind = "timeout"
    /\ \A s \in Sites : sites[s] = "done" /\ pushes[s] = <<"/candidate/onboarding">>

\* C4 as claimed: with a session, any two call sites that have finished have
\* pushed the same destination.
C4_SitesAgree ==
    \A s, t \in Sites :
        (user # NoUser /\ sites[s] = "done" /\ sites[t] = "done")
            => pushes[s] = pushes[t]

\* C4, amended: the dashboard shortcut and the post-login redirect agree for
\* every role; "Get Started" agrees with them for a candidate, and sends every
\* other role to /signup.
C4_SitesAgreeForCandidate ==
    user # NoUser =>
        /\ (sites["dashboard"] = "done" /\ sites["smartRedirect"] = "done")
              => pushes["dashboard"] = pushes["smartRedirect"]
        /\ \A s \in Sites :
              (sites["getStarted"] = "done" /\ sites[s] = "done") =>
                 IF user.role = "candidate"
                 THEN pushes["getStarted"] = pushes[s]
                 ELSE pushes["getStarted"] = <<"/signup">>

\* C4, witness: a candidate with a roadmap and no mentor, sent to the mentor
\* catalogue by all three call sites.
C4_Witness ==
    /\ user.role = "candidate"
    /\ backend.kind = "ok" /\ backend.body.hasRoadmap /\ ~backend.body.hasMentor
    /\ \A s \in Sites : sites[s] = "done" /\ pushes[s] = <<"/candidate/mentors">>

\* C5: a toggle made while no other toggle is outstanding and not followed by
\* another shows, while its request is awaited, the item flipped (false -> true,
\* true -> false) and completedActions moved by exactly +1 (-1); once the call
\* has failed, the item and completedActions are back at their pre-toggle values.
C5_ToggleAppliesThenReverts ==
    \A i \in 1..Len(toggleCalls) :
        LET q == toggleCalls[i]
        IN  (q.alone /\ i = Len(toggleCalls)) =>
              /\ q.phase = "awaiting" =>
                    /\ actionItems[q.itemId] = ~q.currentCompleted
                    /\ stats.completedActions =
                          q.before.completedActions
                            + (IF q.currentCompleted THEN -1 ELSE 1)
              /\ q.phase = "failed" =>
                    /\ actionItems[q.itemId] = q.currentCompleted
                    /\ actionItems = q.before.actionItems
                    /\ stats.completedActions = q.before.completedActions

\* C5, witness: an item that was not completed was toggled, the call failed, and
\* the item and the counter are as they were, with the failure notified.
C5_Witness ==
    \E i \in 1..Len(toggleCalls) :
        /\ i = Len(toggleCalls)
        /\ toggleCalls[i].alone
        /\ toggleCalls[i].phase = "failed"
        /\ ~toggleCalls[i].currentCompleted
        /\ ~actionItems[toggleCalls[i].itemId]
        /\ stats.completedActions = toggleCalls[i].before.completedActions
        /\ "Failed to update action item" \in toasts

\* the toggles so far are on pairwise different items
DistinctItems ==
    \A i, j \in 1..Len(toggleCalls) :
        i # j => toggleCalls[i].itemId # toggleCalls[j].itemId

\* the sum of the counter steps of the toggles 1..n that have not failed
RECURSIVE KeptDelta(_)
KeptDelta(n) ==
    IF n = 0 THEN 0
    ELSE KeptDelta(n - 1)
           + (IF toggleCalls[n].phase = "failed" THEN 0
              ELSE IF toggleCalls[n].currentCompleted THEN -1 ELSE 1)

\* C6: with toggles on different items, outstanding together and settled in any
\* order, every item shows its own toggle's outcome (reverted if that call
\* failed, flipped otherwise), untouched items are as loaded, and
\* completedActions is the loaded count plus the steps of the toggles that did
\* not fail: a rollback undoes its own toggle and nothing else.
C6_RollbackTouchesOnlyItsOwn ==
    (Len(toggleCalls) > 0 /\ DistinctItems) =>
        LET loaded == toggleCalls[1].before
        IN  /\ \A id \in ItemIds :
                 actionItems[id] =
                    IF \E i \in 1..Len(toggleCalls) :
                          /\ toggleCalls[i].itemId = id
                          /\ toggleCalls[i].phase # "failed"
                    THEN ~loaded.actionItems[id]
                    ELSE loaded.actionItems[id]
            /\ stats.completedActions =
                  loaded.completedActions + KeptDelta(Len(toggleCalls))

\* C6, witness: two toggles on different items were outstanding together; the
\* later one succeeded first, then the earlier one failed, and the later one's
\* item is still flipped.
C6_Witness ==
    /\ Len(toggleCalls) = 2
    /\ DistinctItems
    /\ ~toggleCalls[2].alone
    /\ toggleCalls[1].phase = "failed"
    /\ toggleCalls[2].phase = "ok"
    /\ actionItems[toggleCalls[2].itemId] = ~toggleCalls[2].currentCompleted
    /\ actionItems[toggleCalls[1].itemId] = toggleCalls[1].currentCompleted

\* a request has an accept call that the backend answered successfully
AcceptConfirmed(reqId) ==
    \E i \in 1..Len(mentorCalls) :
        /\ mentorCalls[i].kind = "accept"
        /\ mentorCalls[i].reqId = reqId
        /\ mentorCalls[i].phase = "ok"

\* C7: a request's calendar URL has been opened (or shown in the banner) only
\* if an accept call for that request has resolved successfully; and a request
\* whose calls have all failed or are still awaited is still pending.
C7_CalendarOnlyAfterConfirmedAccept ==
    \A reqId \in RequestIds :
        /\ CalendarUrl(reqId) \in windowsOpened => AcceptConfirmed(reqId)
        /\ calendarInfo = CalendarUrl(reqId) => AcceptConfirmed(reqId)
        /\ ( /\ \E i \in 1..Len(mentorCalls) : mentorCalls[i].reqId = reqId
             /\ \A i \in 1..Len(mentorCalls) :
                   mentorCalls[i].reqId = reqId => mentorCalls[i].phase # "ok" )
           => mentorRequests[reqId] = "pending"

\* C7, witness: the accept of one request failed and it is still pending with no
\* calendar opened, while another request's confirmed accept opened its calendar.
C7_Witness ==
    \E r1, r2 \in RequestIds :
        /\ \E i \in 1..Len(mentorCalls) :
              /\ mentorCalls[i].kind = "accept"
              /\ mentorCalls[i].reqId = r1
              /\ mentorCalls[i].phase = "failed"
        /\ mentorRequests[r1] = "pending"
        /\ CalendarUrl(r1) \notin windowsOpened
        /\ AcceptConfirmed(r2)
        /\ CalendarUrl(r2) \in windowsOpened

\* C8 as claimed: a request's status changes only from pending, and only to
\* accepted or declined; an accepted or declined request never changes again.
C8_RequestStatusIsTerminal ==
    [][ \A reqId \in RequestIds :
          mentorRequests'[reqId] # mentorRequests[reqId] =>
             /\ mentorRequests[reqId] = "pending"
             /\ mentorRequests'[reqId] \in {"accepted", "declined"} ]_vars

\* C11: a login or signup call always returns: it ends "ok" or "failed", never
\* by throwing.  When the backend answered 2xx it returns {success: true, user}
\* with the user of the response, and the response's token is in localStorage;
\* when the backend answered non-2xx, or the fetch failed, it returns
\* {success: false, error} with an error message.
C11_AuthReturnsResult ==
    [][ \A i \in 1..Len(authCalls) :
          (authCalls[i].phase = "awaiting" /\ authCalls'[i].phase # "awaiting") =>
             LET c == authCalls'[i]
             IN  /\ c.phase \in {"ok", "failed"}
                 /\ c.response \in {"ok", "rejected", "network"}
                 /\ c.response = "ok" =>
                       /\ c.result = [success |-> TRUE, error |-> Null,
                                      user |-> c.acct]
                       /\ localStorage'["guided_token"] = Tok(i)
                 /\ c.response \in {"rejected", "network"} =>
                       /\ ~c.result.success
                       /\ c.result.error # Null
                       /\ c.result.user = NoUser ]_vars

\* C11, witness: a signup whose fetch failed returned the connection error, and
\* a login the backend accepted returned success with its token persisted.
C11_Witness ==
    \E i, j \in 1..Len(authCalls) :
        /\ authCalls[i].kind = "signup"
        /\ authCalls[i].response = "network"
        /\ authCalls[i].result =
              [success |-> FALSE, error |-> "Cannot connect to server",
               user |-> NoUser]
        /\ authCalls[j].kind = "login"
        /\ authCalls[j].response = "ok"
        /\ authCalls[j].result.success
        /\ localStorage["guided_token"] = Tok(j)

\* no token in memory or in storage, no identity, no cached client artifacts
LoggedOut ==
    /\ user = NoUser
    /\ token = Null
    /\ \A k \in StorageKeys : localStorage[k] = Null

\* C12: a call of logout leaves the persisted token, the in-memory token, the
\* identity, candidateId and onboardingData cleared; and called on a session
\* that is already cleared (never logged in, or logged out just before) it
\* changes nothing of the session or of what the guard shows.
C12_LogoutClearsAndIsIdempotent ==
    [][ afterLogout' =>
          /\ LoggedOut'
          /\ LoggedOut =>
                UNCHANGED <<user, token, localStorage, isLoading, restore,
                            authCalls, gateVars>> ]_vars

\* C12, witness: a session that a login had established on a visit without a
\* stored token has been logged out, and everything is cleared.
C12_Witness ==
    /\ afterLogout
    /\ LoggedOut
    /\ restore.phase = "done"
    /\ \E i \in 1..Len(authCalls) : authCalls[i].phase = "ok"

\* C13: when a login / signup call is answered with success while another call
\* has already been answered with success, the session after that step is
\* wholly the later answer's: in-memory token, identity and persisted token.
C13_LastResponseWins ==
    [][ \A i, j \in 1..Len(authCalls) :
          ( /\ i # j
            /\ authCalls[j].phase = "ok"
            /\ authCalls[i].phase = "awaiting"
            /\ authCalls'[i].phase = "ok" ) =>
                /\ token' = Tok(i)
                /\ user' = authCalls[i].acct
                /\ localStorage'["guided_token"] = Tok(i) ]_vars

\* C13, witness: two calls for different accounts were outstanding together and
\* both succeeded; the first call's answer arrived last, and the session is the
\* first call's.
C13_Witness ==
    /\ Len(authCalls) = 2
    /\ authCalls[1].phase = "ok"
    /\ authCalls[2].phase = "ok"
    /\ authCalls[1].acct # authCalls[2].acct
    /\ token = Tok(1)
    /\ user = authCalls[1].acct
    /\ localStorage["guided_token"] = Tok(1)

\* C14: while isLoading is true the guard shows the loading indicator (so no
\* children) and has issued no redirect, with or without an identity.
C14_LoadingShowsSpinnerOnly ==
    isLoading => (gateView = "spinner" /\ gateRedirect = Null)

\* C14, witness: a login was accepted while the stored token was still being
\* validated: an identity with an allowed role is present, and the guard still
\* shows the loading indicator and has redirected nowhere.
C14_Witness ==
    /\ isLoading
    /\ restore.phase = "validating"
    /\ user # NoUser
    /\ user.role \in allowedRoles
    /\ gateView = "spinner"
    /\ gateRedirect = Null

\* C15: with isLoading false and no identity the guard renders nothing and its
\* last redirect is to /login.
C15_UnauthenticatedGoesToLogin ==
    (~isLoading /\ user = NoUser) =>
        (gateView = "nothing" /\ gateRedirect = "/login")

\* C15, witness: the stored token was rejected and nobody logged in: the guard
\* renders nothing and has redirected to /login.
C15_Witness ==
    /\ restore.phase = "rejected"
    /\ ~isLoading
    /\ user = NoUser
    /\ gateView = "nothing"
    /\ gateRedirect = "/login"

\* C16: with isLoading false and an identity whose role the page does not allow,
\* the guard renders nothing and its last redirect is to the role's home:
\* /mentor/dashboard for a mentor, / for an admin, /candidate/workflow otherwise.
C16_WrongRoleGoesHome ==
    (~isLoading /\ user # NoUser /\ user.role \notin allowedRoles) =>
        /\ gateView = "nothing"
        /\ user.role = "mentor" => gateRedirect = "/mentor/dashboard"
        /\ user.role = "admin" => gateRedirect = "/"
        /\ user.role \notin {"mentor", "admin"} =>
              gateRedirect = "/candidate/workflow"

\* C16, witness: on a mentor's page, where a candidate had logged in before, an
\* admin is signed in: the guard renders nothing and has sent the admin to /.
C16_Witness ==
    /\ ~isLoading
    /\ user.role = "admin"
    /\ allowedRoles = {"mentor"}
    /\ gateView = "nothing"
    /\ gateRedirect = "/"
    /\ \E i \in 1..Len(authCalls) :
          authCalls[i].phase = "ok" /\ authCalls[i].acct.role = "candidate"

\* C17: what the guard shows always is the render of the current identity,
\* loading state and allowed roles; and after a call of logout the guard does
\* not show the children, and once loading has finished its last redirect is
\* to /login.
C17_GateFollowsLogout ==
    /\ gateView = RouteGuardRender(user, isLoading, allowedRoles)
    /\ afterLogout =>
          /\ gateView # "children"
          /\ ~isLoading => gateRedirect = "/login"

\* C17, witness: the stored token was validated for a role the page allows, so
\* the guard showed the children; then logout was called, and the guard renders
\* nothing and has redirected to /login.
C17_Witness ==
    /\ afterLogout
    /\ restore.phase = "restored"
    /\ restore.data.role \in allowedRoles
    /\ authCalls = <<>>
    /\ gateView = "nothing"
    /\ gateRedirect = "/login"

\* C18 as claimed: when completeSession fails, the step that reverts leaves
\* every other session as it was, and, for a completion made while no other
\* request was outstanding and not followed by another, leaves the session's
\* fields (status and relative label) and stats.completedSessions at the values
\* they had before the click.
C18_CompleteSessionRevertsExactly ==
    [][ \A i \in 1..Len(sessionCalls) :
          (sessionCalls[i].phase = "awaiting" /\ sessionCalls'[i].phase = "failed") =>
             LET q == sessionCalls[i]
             IN  /\ \A id \in SessionIds \ {q.sessionId} :
                        sessions'[id] = sessions[id]
                 /\ (q.alone /\ i = Len(sessionCalls)) =>
                        /\ sessions'[q.sessionId] = q.before.session
                        /\ stats'.completedSessions = q.before.completedSessions
       ]_vars

\* no toggle, completion or reload is outstanding
Quiescent ==
    /\ \A i \in 1..Len(toggleCalls) : toggleCalls[i].phase # "awaiting"
    /\ \A i \in 1..Len(sessionCalls) :
          sessionCalls[i].phase \notin {"awaiting", "loading"}

\* C19 as claimed: whenever no toggle, completion or reload is outstanding, the
\* completed flag of every action item and the status of every session shown
\* equal the backend's.
C19_QuiescentMatchesBackend ==
    Quiescent =>
        /\ \A id \in ItemIds : actionItems[id] = server.actionItems[id]
        /\ \A id \in SessionIds : sessions[id].status = server.sessions[id].status

C21_FailedMutationNotifies ==
    /\ \A i \in 1..Len(toggleCalls) :
          toggleCalls[i].phase = "failed" => "Failed to update action item" \in toasts
    /\ \A i \in 1..Len(sessionCalls) :
          sessionCalls[i].phase = "failed" => "Failed to complete session" \in toasts
    /\ \A i \in 1..Len(mentorCalls) :
          mentorCalls[i].phase = "failed" => toasts # {}

\* C25: for a mentor, the dashboard shortcut and the post-login redirect each
\* push exactly /mentor/dashboard when verified is true and exactly
\* /mentor/verification when it is not, without asking the backend.
C25_MentorByVerified ==
    user.role = "mentor" =>
        \A s \in {"dashboard", "smartRedirect"} :
            /\ sites[s] # "fetching"
            /\ sites[s] = "done" =>
                  pushes[s] = << IF user.verified THEN "/mentor/dashboard"
                                 ELSE "/mentor/verification" >>

\* C25, witness: an unverified mentor has been sent to the verification page by
\* both call sites, whatever the status request would have answered.
C25_Witness ==
    /\ user.role = "mentor"
    /\ ~user.verified
    /\ pushes["dashboard"] = <<"/mentor/verification">>
    /\ pushes["smartRedirect"] = <<"/mentor/verification">>

\* C23 as claimed: after mount the restore always finishes, that is, isLoading
\* eventually becomes false, whatever is stored and however the validation
\* request ends.
C23_RestoreFinishes == <>(~isLoading)

\* C22: no apiFetch call ends by throwing; a call that has returned gave the
\* parsed body when a 2xx response was read, and null after a network error, a
\* non-2xx response or the abort at the timeout, so that the value returned
\* after a timeout is the value returned after a network failure.
C22_ApiFetchNeverThrows ==
    \A i \in 1..Len(apiCalls) :
        LET c == apiCalls[i]
        IN  /\ c.completion \in {"pending", "returned"}
            /\ c.completion = "returned" =>
                  /\ c.outcome = "ok" => c.status = "200"
                  /\ c.result = IF c.outcome = "ok" THEN Payload(ApiBody)
                                ELSE NullResult
                  /\ c.outcome = "timeout" =>
                        c.result = ApiFetch([kind |-> "network", body |-> <<>>])

\* C22, witness: a call whose fetch was aborted by the timer has returned null.
C22_Witness ==
    \E i \in 1..Len(apiCalls) :
        /\ apiCalls[i].outcome = "timeout"
        /\ apiCalls[i].timer = "fired"
        /\ apiCalls[i].completion = "returned"
        /\ apiCalls[i].result = NullResult

\* C24 as claimed: the step in which an apiFetch call that was answered 401
\* returns leaves no token and no identity, in memory or persisted, and the
\* guard has redirected to /login.
C24_UnauthorizedForcesLogout ==
    [][\A i \in 1..Len(apiCalls) :
          (/\ apiCalls[i].phase # "done"
           /\ apiCalls'[i].phase = "done"
           /\ apiCalls'[i].status = "401")
          => /\ token' = Null
             /\ user' = NoUser
             /\ localStorage'["guided_token"] = Null
             /\ gateRedirect' = "/login"]_vars

StatusFetched ==
    /\ verifyCalls # <<>>
    /\ verifyCalls[1].kind = "status"
    /\ verifyCalls[1].phase # "awaiting"

\* some submit request of the verification page has succeeded
SubmitSucceeded ==
    \E i \in 1..Len(verifyCalls) :
        verifyCalls[i].kind = "submit" /\ verifyCalls[i].phase = "ok"

\* C27: until the status request has ended the page shows loading; once it has
\* ended (and until a submit succeeds) the status is verified if the answer
\* says verified, pending if it says pending and not verified, unsubmitted if
\* it says neither, and unsubmitted if the request failed.
C27_StatusFromTwoBooleans ==
    /\ ~StatusFetched => verificationStatus = "loading"
    /\ (StatusFetched /\ ~SubmitSucceeded) =>
          LET c == verifyCalls[1]
          IN  /\ c.phase = "failed" => verificationStatus = "unsubmitted"
              /\ c.phase = "ok" =>
                    /\ c.response.value.verified =>
                          verificationStatus = "verified"
                    /\ (~c.response.value.verified /\ c.response.value.pending) =>
                          verificationStatus = "pending"
                    /\ (~c.response.value.verified /\ ~c.response.value.pending) =>
                          verificationStatus = "unsubmitted"

\* C27, witness: the backend answered verified and pending both true, and the
\* page shows verified.
C27_Witness ==
    /\ StatusFetched
    /\ verifyCalls[1].phase = "ok"
    /\ verifyCalls[1].response.value.verified
    /\ verifyCalls[1].response.value.pending
    /\ verificationStatus = "verified"

\* C28: every submit request sent carried a URL that passes the page's test;
\* a page that started unsubmitted shows pending exactly if a submit request
\* has succeeded, so a rejected URL and a failed submit leave it unsubmitted;
\* and isSubmitting is true only while a submit request is outstanding.
C28_SubmitAppliesOnSuccess ==
    /\ \A i \in 1..Len(verifyCalls) :
          verifyCalls[i].kind = "submit" =>
              Includes(verifyCalls[i].url, "linkedin.com")
    /\ (StatusFetched /\ StatusOf(verifyCalls[1].response) = "unsubmitted") =>
          verificationStatus = IF SubmitSucceeded THEN "pending" ELSE "unsubmitted"
    /\ verifyIsSubmitting =>
          \E i \in 1..Len(verifyCalls) :
              verifyCalls[i].kind = "submit" /\ verifyCalls[i].phase = "awaiting"

\* C28, witness: a URL was rejected by the page's test, a submit request failed
\* and left the page unsubmitted, a second one succeeded, and the page shows
\* pending with isSubmitting false.
C28_Witness ==
    /\ "Please enter a valid LinkedIn URL" \in toasts
    /\ Len(verifyCalls) = 3
    /\ verifyCalls[2].phase = "failed"
    /\ verifyCalls[3].phase = "ok"
    /\ verificationStatus = "pending"
    /\ ~verifyIsSubmitting

\* C30: postOnboarding is called from the final step only; while it is
\* outstanding isSubmitting is true and nothing has been stored or pushed; once
\* it has resolved, with or without success, the draft submitted is in
\* localStorage under onboardingData, /candidate/roadmap has been pushed and
\* isSubmitting is false.
C30_FinalStepPersistsAndNavigates ==
    /\ wizardCalls = <<>> =>
          (pushes["onboarding"] = <<>> /\ ~wizardIsSubmitting)
    /\ \A i \in 1..Len(wizardCalls) :
          /\ wizardCalls[i].phase = "awaiting" =>
                /\ wizardIsSubmitting
                /\ pushes["onboarding"] = <<>>
                /\ localStorage["onboardingData"] = Null
          /\ wizardCalls[i].phase \in {"ok", "failed"} =>
                /\ localStorage["onboardingData"] =
                      Stringify(wizardCalls[i].formData)
                /\ pushes["onboarding"] = <<"/candidate/roadmap">>
                /\ ~wizardIsSubmitting

\* C30, witness: the backend call failed, and the draft (with an uploaded
\* resume) is stored, the roadmap was pushed and isSubmitting is false.
C30_Witness ==
    /\ Len(wizardCalls) = 1
    /\ wizardCalls[1].phase = "failed"
    /\ wizardCalls[1].formData.resumeUploaded
    /\ localStorage["onboardingData"] = Stringify(wizardCalls[1].formData)
    /\ pushes["onboarding"] = <<"/candidate/roadmap">>
    /\ ~wizardIsSubmitting

C31_IdentityImpliesToken ==
    (~isLoading /\ user # NoUser) =>
        (token # Null /\ token = localStorage["guided_token"])

\* C32 as claimed: once logout has run, a step that starts no login or signup
\* (so the answer of a request that was in flight when logout ran) leaves the
\* identity and the token cleared.
C32_LogoutOutlivesStaleResponses ==
    [][(afterLogout /\ Len(authCalls') = Len(authCalls)) =>
          (user' = NoUser /\ token' = Null)]_vars

\* C33 as claimed: whenever no toggle request is outstanding, the counter
\* completedActions is the number of action items shown completed, and it lies
\* between 0 and totalActions.
C33_CounterMatchesItems ==
    (\A i \in 1..Len(toggleCalls) : toggleCalls[i].phase # "awaiting") =>
        /\ stats.completedActions = CompletedCount(actionItems, ItemIds)
        /\ stats.completedActions \in 0..stats.totalActions

\* C34 as claimed: whenever no complete-session request and no reload is
\* outstanding, the counter completedSessions is the number of sessions shown
\* completed, and it does not exceed totalSessions.
C34_SessionCounterMatches ==
    (\A i \in 1..Len(sessionCalls) : sessionCalls[i].phase \in {"ok", "failed"}) =>
        /\ stats.completedSessions =
              Cardinality({s \in SessionIds : sessions[s].status = "completed"})
        /\ stats.completedSessions <= stats.totalSessions

--------------------------------------------------------------------------
(* Login page *)

\* the values the email and the password field take
LoginEmails == {"", "candidate@guided.dev", "mentor@guided.dev"}
LoginPasswords == {"", "password"}

\* the account behind a demo address
AccountOf(email) ==
    IF email = "mentor@guided.dev"
    THEN [id |-> "u2", role |-> "mentor", verified |-> TRUE]
    ELSE [id |-> "u1", role |-> "candidate", verified |-> FALSE]

\* the login page is on screen until one of its handlers has navigated away
LoginShown == pushes["smartRedirect"] = <<>>

\* onChange of the email field
SetEmail(value) ==
    /\ LoginShown
    /\ loginEmail' = value
    /\ UNCHANGED <<loginPassword, loginIsLoading, loginCalls>>

\* onChange of the password field
SetPassword(value) ==
    /\ LoginShown
    /\ loginPassword' = value
    /\ UNCHANGED <<loginEmail, loginIsLoading, loginCalls>>

\* the page's call of login(email, password), up to its await
LoginStart(email) ==
    /\ loginIsLoading' = TRUE
    /\ Login(AccountOf(email))
    /\ loginCalls' = Append(loginCalls, "login")
    /\ UNCHANGED <<resolverVars, toasts>>

\* handleSubmit, up to its await; the submit button is disabled while isLoading
LoginHandleSubmit ==
    /\ LoginShown
    /\ ~loginIsLoading
    /\ IF loginEmail = "" \/ loginPassword = ""
       THEN /\ toasts' = toasts \cup {"Please fill in all fields"}
            /\ UNCHANGED <<authVars, gateVars, resolverVars, loginVars>>
       ELSE /\ LoginStart(loginEmail)
            /\ UNCHANGED <<loginEmail, loginPassword>>

\* quickLogin, up to its await; the quick-access buttons are never disabled
QuickLogin(email) ==
    /\ LoginShown
    /\ loginEmail' = email
    /\ loginPassword' = "password"
    /\ LoginStart(email)

\* the rest of handleSubmit / quickLogin once login() has returned its result
LoginSettle(i, outcome) ==
    /\ i \in 1..Len(loginCalls)
    /\ loginCalls[i] = "login"
    /\ AuthSettle(i, outcome)
    /\ IF authCalls'[i].result.success /\ authCalls'[i].result.user # NoUser
       THEN /\ toasts' = toasts \cup {"Welcome back!"}
            /\ IF authCalls'[i].result.user.role = "mentor"
               THEN /\ Push("smartRedirect",
                            IF authCalls'[i].result.user.verified
                            THEN "/mentor/dashboard" ELSE "/mentor/verification")
                    /\ loginCalls' = [loginCalls EXCEPT ![i] = "done"]
                    /\ loginIsLoading' = FALSE
               ELSE /\ loginCalls' = [loginCalls EXCEPT ![i] = "redirecting"]
                    /\ UNCHANGED <<pushes, loginIsLoading>>
       ELSE /\ toasts' = toasts \cup {authCalls'[i].result.error}
            /\ loginCalls' = [loginCalls EXCEPT ![i] = "done"]
            /\ loginIsLoading' = FALSE
            /\ UNCHANGED pushes
    /\ UNCHANGED <<backend, sites, loginEmail, loginPassword>>

\* smartRedirect of a candidate after its awaited status, then setIsLoading(false)
LoginRedirectSettle(i) ==
    /\ i \in 1..Len(loginCalls)
    /\ loginCalls[i] = "redirecting"
    /\ Push("smartRedirect", SmartRedirectDestination(GetCandidateStatus(backend)))
    /\ loginCalls' = [loginCalls EXCEPT ![i] = "done"]
    /\ loginIsLoading' = FALSE
    /\ UNCHANGED <<authVars, gateVars, backend, sites, toasts, loginEmail,
                   loginPassword>>

\* a visitor without a session on the login page
InitLogin ==
    /\ user = NoUser
    /\ token = Null
    /\ isLoading = FALSE
    /\ localStorage = [k \in StorageKeys |-> Null]
    /\ restore = [phase |-> "done", data |-> NoUser]
    /\ authCalls = <<>>
    /\ afterLogout = FALSE
    /\ allowedRoles = {"candidate"}
    /\ gateView = RouteGuardRender(user, FALSE, allowedRoles)
    /\ gateRedirect = Null
    /\ backend \in [kind : {"ok"}, body : StatusBodies]
                    \cup [kind : FailureKinds, body : {<<>>}]
    /\ sites = [s \in Sites |-> "idle"]
    /\ pushes = [s \in Sites |-> <<>>]
    /\ actionItems = <<>> /\ stats = <<>> /\ toggleCalls = <<>> /\ toasts = {}
    /\ SyncIdle /\ MentorIdle /\ ApiIdle /\ VerifyIdle /\ WizardIdle
    /\ LoginIdle /\ AdminIdle

LoginRest ==
    <<actionItems, stats, toggleCalls, syncVars, mentorVars, apiVars, verifyVars,
      wizardVars, adminVars>>

NextLogin ==
    \/ \E value \in LoginEmails : SetEmail(value) /\ UNCHANGED <<authVars, gateVars, resolverVars, toasts, LoginRest>>
    \/ \E value \in LoginPasswords : SetPassword(value) /\ UNCHANGED <<authVars, gateVars, resolverVars, toasts, LoginRest>>
    \/ LoginHandleSubmit /\ UNCHANGED LoginRest
    \/ \E email \in {"candidate@guided.dev", "mentor@guided.dev"} :
          QuickLogin(email) /\ UNCHANGED LoginRest
    \/ \E i \in 1..MaxAuthCalls, outcome \in {"ok", "rejected", "network"} :
          LoginSettle(i, outcome) /\ UNCHANGED LoginRest
    \/ \E i \in 1..MaxAuthCalls : LoginRedirectSettle(i) /\ UNCHANGED LoginRest

SpecLogin == InitLogin /\ [][NextLogin]_vars

\* C35 as claimed: the login page never has two login requests outstanding;
\* while isLoading is true neither the form nor a quick-login button starts one.
C35_OneLoginOutstanding ==
    Cardinality({i \in 1..Len(authCalls) : authCalls[i].phase = "awaiting"}) <= 1

--------------------------------------------------------------------------
(* Admin application: API client, layout and mentors page *)

AdminStorageKeys == {"admin_token", "admin_user"}

\* the token and the cached user an earlier login left behind
AdminToken == "adm"
AdminUser == "admin"

AdminMentorIds == {"m1", "m2"}

\* how a request of the admin client ends: 2xx, 401, or any other failure
AdminOutcomes == {"ok", "unauthorized", "error"}

\* the lists GET /admin/mentors and GET /admin/pending-mentors may carry
MentorListings ==
    { {},
      {[id |-> "m1", enabled |-> TRUE]},
      {[id |-> "m1", enabled |-> FALSE], [id |-> "m2", enabled |-> TRUE]} }
PendingListings == SUBSET AdminMentorIds

\* useState(null) of dialogAction
NoDialog == [type |-> Null, mentorId |-> Null, isPending |-> FALSE]

\* getToken: the module variable, else what localStorage holds
GetAdminToken(authToken, storage) ==
    IF authToken # Null THEN authToken ELSE storage["admin_token"]

\* isLoggedIn
IsLoggedIn(authToken, storage) == GetAdminToken(authToken, storage) # Null

\* the admin pages are on screen: the layout is past its spinner
ChildrenShown == layoutReady /\ adminRoute = "/admin/mentors"

\* what the admin client does to itself when a request has ended: logout() on 401
AdminApiFetch(outcome) ==
    IF outcome = "unauthorized"
    THEN /\ adminAuthToken' = Null
         /\ adminStorage' = [k \in AdminStorageKeys |-> Null]
    ELSE UNCHANGED <<adminAuthToken, adminStorage>>

\* the message of the Error a failed request throws
AdminError(outcome) ==
    IF outcome = "unauthorized" THEN "Unauthorized" ELSE "API error"

AdminCallRecord(kind, mentorId, reason) ==
    [kind |-> kind, mentorId |-> mentorId, reason |-> reason, phase |-> "first",
     failed |-> FALSE, changed |-> FALSE]

\* AdminLayout's mount effect; with a token the page below mounts and loads
LayoutMount ==
    /\ adminRoute = "/admin/mentors"
    /\ ~layoutReady
    /\ adminAuthToken' = GetAdminToken(adminAuthToken, adminStorage)
    /\ IF ~IsLoggedIn(adminAuthToken, adminStorage)
       THEN /\ adminRoute' = "/"
            /\ UNCHANGED <<layoutReady, adminLoading, adminCalls>>
       ELSE /\ layoutReady' = TRUE
            /\ adminLoading' = TRUE
            /\ adminCalls' = Append(adminCalls, AdminCallRecord("load", Null, ""))
            /\ UNCHANGED adminRoute
    /\ UNCHANGED <<adminStorage, dialogAction, rejectReason, localMentors,
                   pendingMentors, actionLoading, toasts>>

\* handleLogout of the sidebar
HandleLogout ==
    /\ ChildrenShown
    /\ dialogAction = NoDialog
    /\ adminAuthToken' = Null
    /\ adminStorage' = [k \in AdminStorageKeys |-> Null]
    /\ adminRoute' = "/"
    /\ UNCHANGED <<layoutReady, adminLoading, dialogAction, rejectReason,
                   localMentors, pendingMentors, actionLoading, adminCalls, toasts>>

\* loadData after its Promise.all: both lists, or the failure notification
LoadDataSettle(i, outcome, mentors, pending) ==
    /\ i \in 1..Len(adminCalls)
    /\ adminCalls[i].kind = "load"
    /\ adminCalls[i].phase = "first"
    /\ AdminApiFetch(outcome)
    /\ IF outcome = "ok"
       THEN /\ localMentors' = mentors
            /\ pendingMentors' = pending
            /\ UNCHANGED toasts
       ELSE /\ toasts' = toasts \cup {"Failed to load mentors"}
            /\ UNCHANGED <<localMentors, pendingMentors>>
    /\ adminLoading' = FALSE
    /\ adminCalls' = [adminCalls EXCEPT ![i].phase = "done",
                                        ![i].failed = outcome # "ok"]
    /\ UNCHANGED <<layoutReady, adminRoute, dialogAction, rejectReason,
                   actionLoading>>

\* Approve / Reject on a pending row, Enable / Disable on a mentor row
OpenDialog(type, mentorId) ==
    /\ ChildrenShown
    /\ ~adminLoading
    /\ dialogAction = NoDialog
    /\ \/ /\ type \in {"verify", "reject"}
          /\ mentorId \in pendingMentors
       \/ /\ type = "disable"
          /\ [id |-> mentorId, enabled |-> TRUE] \in localMentors
       \/ /\ type = "enable"
          /\ [id |-> mentorId, enabled |-> FALSE] \in localMentors
    /\ dialogAction' = [type |-> type, mentorId |-> mentorId,
                        isPending |-> type \in {"verify", "reject"}]
    /\ UNCHANGED <<adminAuthToken, adminStorage, layoutReady, adminRoute,
                   adminLoading, rejectReason, localMentors, pendingMentors,
                   actionLoading, adminCalls, toasts>>

\* onOpenChange of the dialog and its Cancel button
CloseDialog ==
    /\ ChildrenShown
    /\ dialogAction # NoDialog
    /\ dialogAction' = NoDialog
    /\ rejectReason' = ""
    /\ UNCHANGED <<adminAuthToken, adminStorage, layoutReady, adminRoute,
                   adminLoading, localMentors, pendingMentors, actionLoading,
                   adminCalls, toasts>>

\* onChange of the reason field, shown in the reject dialog
SetRejectReason(value) ==
    /\ ChildrenShown
    /\ dialogAction.type = "reject"
    /\ rejectReason' = value
    /\ UNCHANGED <<adminAuthToken, adminStorage, layoutReady, adminRoute,
                   adminLoading, dialogAction, localMentors, pendingMentors,
                   actionLoading, adminCalls, toasts>>

\* handleAction up to its first await; Confirm is disabled while actionLoading
HandleAction ==
    /\ ChildrenShown
    /\ dialogAction # NoDialog
    /\ ~actionLoading
    /\ Cardinality({i \in 1..Len(adminCalls) : adminCalls[i].kind # "load"})
          < MaxAdminActions
    /\ actionLoading' = TRUE
    /\ adminAuthToken' = GetAdminToken(adminAuthToken, adminStorage)
    /\ adminCalls' = Append(adminCalls,
          AdminCallRecord(dialogAction.type, dialogAction.mentorId, rejectReason))
    /\ UNCHANGED <<adminStorage, layoutReady, adminRoute, adminLoading,
                   dialogAction, rejectReason, localMentors, pendingMentors,
                   toasts>>

\* the three statements that close handleAction
ActionFinish ==
    /\ actionLoading' = FALSE
    /\ dialogAction' = NoDialog
    /\ rejectReason' = ""

\* the list changes handleAction makes after its first request succeeded
ActionApply(kind, mentorId) ==
    /\ pendingMentors' =
          IF kind \in {"verify", "reject"}
          THEN pendingMentors \ {mentorId} ELSE pendingMentors
    /\ localMentors' =
          IF kind \in {"enable", "disable"}
          THEN {IF m.id = mentorId
                THEN [m EXCEPT !.enabled = (kind = "enable")] ELSE m :
                m \in localMentors}
          ELSE localMentors

\* handleAction after verifyMentor / rejectMentor / enableMentor / disableMentor
ActionSettle(i, outcome) ==
    /\ i \in 1..Len(adminCalls)
    /\ adminCalls[i].kind # "load"
    /\ adminCalls[i].phase = "first"
    /\ AdminApiFetch(outcome)
    /\ IF outcome # "ok"
       THEN /\ toasts' = toasts \cup {"Action failed: " \o AdminError(outcome)}
            /\ adminCalls' = [adminCalls EXCEPT ![i].phase = "done",
                                                ![i].failed = TRUE]
            /\ ActionFinish
            /\ UNCHANGED <<localMentors, pendingMentors>>
       ELSE /\ ActionApply(adminCalls[i].kind, adminCalls[i].mentorId)
            /\ IF adminCalls[i].kind = "verify"
               THEN /\ adminCalls' = [adminCalls EXCEPT ![i].phase = "second",
                          ![i].changed = (pendingMentors' # pendingMentors)]
                    /\ UNCHANGED <<toasts, actionLoading, dialogAction,
                                   rejectReason>>
               ELSE /\ adminCalls' = [adminCalls EXCEPT ![i].phase = "done",
                          ![i].changed = (pendingMentors' # pendingMentors
                                          \/ localMentors' # localMentors)]
                    /\ toasts' = toasts \cup
                          {CASE adminCalls[i].kind = "reject" ->
                                    "application has been rejected."
                             [] adminCalls[i].kind = "enable" ->
                                    "Mentor account enabled"
                             [] OTHER -> "Mentor account disabled"}
                    /\ ActionFinish
    /\ UNCHANGED <<layoutReady, adminRoute, adminLoading>>

\* the verify case after its second request, getAdminMentors
RefreshSettle(i, outcome, mentors) ==
    /\ i \in 1..Len(adminCalls)
    /\ adminCalls[i].phase = "second"
    /\ AdminApiFetch(outcome)
    /\ IF outcome = "ok"
       THEN /\ localMentors' = mentors
            /\ toasts' = toasts \cup {"has been approved and verified!"}
            /\ adminCalls' = [adminCalls EXCEPT ![i].phase = "done",
                  ![i].changed = (@ \/ mentors # localMentors)]
       ELSE /\ toasts' = toasts \cup {"Action failed: " \o AdminError(outcome)}
            /\ adminCalls' = [adminCalls EXCEPT ![i].phase = "done",
                                                ![i].failed = TRUE]
            /\ UNCHANGED localMentors
    /\ ActionFinish
    /\ UNCHANGED <<layoutReady, adminRoute, adminLoading, pendingMentors>>

\* the admin application opened on /admin/mentors, with or without a stored token
InitAdmin ==
    /\ user = NoUser
    /\ token = Null
    /\ isLoading = FALSE
    /\ localStorage = [k \in StorageKeys |-> Null]
    /\ restore = [phase |-> "done", data |-> NoUser]
    /\ authCalls = <<>>
    /\ afterLogout = FALSE
    /\ allowedRoles = {"admin"}
    /\ gateView = RouteGuardRender(user, FALSE, allowedRoles)
    /\ gateRedirect = Null
    /\ ResolverIdle /\ SyncIdle /\ MentorIdle
    /\ actionItems = <<>> /\ stats = <<>> /\ toggleCalls = <<>> /\ toasts = {}
    /\ ApiIdle /\ VerifyIdle /\ WizardIdle /\ LoginIdle
    /\ adminAuthToken = Null
    /\ \E stored \in {Null, AdminToken} :
          adminStorage = [k \in AdminStorageKeys |->
                            IF stored = Null THEN Null
                            ELSE IF k = "admin_token" THEN AdminToken
                            ELSE AdminUser]
    /\ layoutReady = FALSE
    /\ adminRoute = "/admin/mentors"
    /\ adminLoading = TRUE
    /\ dialogAction = NoDialog
    /\ rejectReason = ""
    /\ localMentors = {}
    /\ pendingMentors = {}
    /\ actionLoading = FALSE
    /\ adminCalls = <<>>

AdminRest ==
    <<authVars, gateVars, resolverVars, actionItems, stats, toggleCalls, syncVars,
      mentorVars, apiVars, verifyVars, wizardVars, loginVars>>

NextAdmin ==
    \/ LayoutMount /\ UNCHANGED AdminRest
    \/ HandleLogout /\ UNCHANGED AdminRest
    \/ \E i \in 1..(MaxAdminActions + 1), outcome \in AdminOutcomes,
          mentors \in MentorListings, pending \in PendingListings :
          LoadDataSettle(i, outcome, mentors, pending) /\ UNCHANGED AdminRest
    \/ \E type \in {"verify", "reject", "enable", "disable"},
          mentorId \in AdminMentorIds :
          OpenDialog(type, mentorId) /\ UNCHANGED AdminRest
    \/ CloseDialog /\ UNCHANGED AdminRest
    \/ \E value \in {"", "incomplete profile"} :
          SetRejectReason(value) /\ UNCHANGED AdminRest
    \/ HandleAction /\ UNCHANGED AdminRest
    \/ \E i \in 1..(MaxAdminActions + 1), outcome \in AdminOutcomes :
          ActionSettle(i, outcome) /\ UNCHANGED AdminRest
    \/ \E i \in 1..(MaxAdminActions + 1), outcome \in AdminOutcomes,
          mentors \in MentorListings :
          RefreshSettle(i, outcome, mentors) /\ UNCHANGED AdminRest

SpecAdmin == InitAdmin /\ [][NextAdmin]_vars

\* C36 as claimed: the admin pages are on screen only while an admin token is
\* present: none at a mount without a token, none after a 401 has run logout().
C36_ChildrenOnlyWithToken ==
    ChildrenShown => IsLoggedIn(adminAuthToken, adminStorage)

\* C37 as claimed: a handleAction run that ends with "Action failed" has changed
\* neither pendingMentors nor localMentors, and every run ends with the dialog
\* closed, the reason cleared and actionLoading false.
C37_FailedActionChangesNothing ==
    [][\A i \in 1..Len(adminCalls) :
          (adminCalls[i].kind # "load" /\ adminCalls[i].phase # "done"
           /\ adminCalls'[i].phase = "done") =>
              /\ dialogAction' = NoDialog
              /\ ~actionLoading'
              /\ adminCalls'[i].failed => ~adminCalls'[i].changed]_vars

============================================================================
